---- MODULE Spec2Model ----
(***************************************************************************)
(* NexInvo: GST tax computation and Rule-46 compliance validation.        *)
(*                                                                         *)
(* Number representation.  The code computes with Python Decimal; every   *)
(* operation it uses (+, -, *, /100, /2) is exact on the inputs drawn     *)
(* here.  Money is counted in paise (0.01 rupee), percentages in eighths  *)
(* of a percent (so that 0.25% / 2 = 0.125% is a whole number).  The      *)
(* input sets below keep every quotient exact (see ExactLine).            *)
(***************************************************************************)
EXTENDS Integers, Sequences, FiniteSets, TLC

VARIABLES
    pc,      \* position of the running operation
    ld0,     \* line attrs as they arrive at InvoiceLineSerializer.validate
    ld,      \* line attrs / line_data being processed
    ctx,     \* invoice.client.state_code and invoice.place_of_supply
    line,    \* the line built by _create_invoice_line
    mline,   \* the same line after InvoiceLine.calculate_taxes
    inv,     \* the invoice_data dictionary handed to the engine
    res,     \* what validate_invoice_rule_46 gave back
    req,     \* the request data handed to InvoiceSerializer
    db,      \* the stored invoices of the tenant, oldest first
    resp,    \* how the request ended
    util,    \* the last call of a module-level utility function
    heap,    \* the list objects made by the engines, by reference
    engines, \* self.errors and self.warnings of each GSTComplianceEngine
    calls    \* the calls in flight (validate calls, create requests), each with
             \* its position

lineVars == <<ld0, ld, ctx, line, mline>>
engineVars == <<inv, res>>
requestVars == <<req, db, resp>>
utilVars == <<util>>
threadVars == <<heap, engines, calls>>
vars == <<pc, ld0, ld, ctx, line, mline, inv, res, req, db, resp, util,
          heap, engines, calls>>

-----------------------------------------------------------------------------
(* Bounds of the model *)

MaxQty == 2

MaxLines == 2

\* the longest error list and warning list handed to _calculate_compliance_score
MaxErrors == 11

MaxWarnings == 51

-----------------------------------------------------------------------------
(* Decimal arithmetic *)

\* n percent, in eighths of a percent
P(n) == 8 * n

\* n rupees, in paise
Rs(n) == 100 * n

\* (x * p) / 100 for a percentage p held in eighths of a percent
PercentOf(x, p) == (x * p) \div 800

Abs(x) == IF x < 0 THEN -x ELSE x

\* total_gst / 2
Half(p) == p \div 2

-----------------------------------------------------------------------------
(* InvoiceLineSerializer.validate *)

LineAmount(a) == a.quantity * a.rate

InvoiceLineSerializerValidate_noOverride(a) ==
    LET line_amount == LineAmount(a)
        discount_amount == IF a.discount_percent > 0 /\ a.discount_amount = 0
                           THEN PercentOf(line_amount, a.discount_percent)
                           ELSE a.discount_amount
    IN [a EXCEPT !.discount_amount = discount_amount,
                 !.taxable_value = line_amount - discount_amount]

InvoiceLineSerializerValidate(a) ==
    LET line_amount == LineAmount(a)
        discount_amount == IF a.discount_percent > 0
                           THEN PercentOf(line_amount, a.discount_percent)
                           ELSE a.discount_amount
    IN [a EXCEPT !.discount_amount = discount_amount,
                 !.taxable_value = line_amount - discount_amount]

-----------------------------------------------------------------------------
(* InvoiceSerializer._create_invoice_line *)

\* not any([cgst_rate, sgst_rate, igst_rate]) and line_data.get('item')
UsesItemRates(a) ==
    a.cgst_rate = 0 /\ a.sgst_rate = 0 /\ a.igst_rate = 0 /\ a.has_item

LineRates_swapped(a, client_state, supply_state) ==
    IF UsesItemRates(a)
    THEN IF client_state # supply_state
         THEN [cgst_rate |-> Half(a.item_gst), sgst_rate |-> Half(a.item_gst),
               igst_rate |-> 0, cess_rate |-> a.item_cess]
         ELSE [cgst_rate |-> 0, sgst_rate |-> 0,
               igst_rate |-> a.item_gst, cess_rate |-> a.item_cess]
    ELSE [cgst_rate |-> a.cgst_rate, sgst_rate |-> a.sgst_rate,
          igst_rate |-> a.igst_rate, cess_rate |-> a.cess_rate]

LineRates_sameSplit(a, client_state, supply_state) ==
    IF UsesItemRates(a)
    THEN [cgst_rate |-> Half(a.item_gst), sgst_rate |-> Half(a.item_gst),
          igst_rate |-> 0, cess_rate |-> a.item_cess]
    ELSE [cgst_rate |-> a.cgst_rate, sgst_rate |-> a.sgst_rate,
          igst_rate |-> a.igst_rate, cess_rate |-> a.cess_rate]

LineRates(a, client_state, supply_state) ==
    IF UsesItemRates(a)
    THEN IF client_state = supply_state
         THEN [cgst_rate |-> Half(a.item_gst), sgst_rate |-> Half(a.item_gst),
               igst_rate |-> 0, cess_rate |-> a.item_cess]
         ELSE [cgst_rate |-> 0, sgst_rate |-> 0,
               igst_rate |-> a.item_gst, cess_rate |-> a.item_cess]
    ELSE [cgst_rate |-> a.cgst_rate, sgst_rate |-> a.sgst_rate,
          igst_rate |-> a.igst_rate, cess_rate |-> a.cess_rate]

CreateInvoiceLine_noCess(a, client_state, supply_state) ==
    LET r == LineRates(a, client_state, supply_state)
        taxable_value == a.taxable_value
        intra == client_state = supply_state
        cgst_amount == IF intra THEN PercentOf(taxable_value, r.cgst_rate) ELSE 0
        sgst_amount == IF intra THEN PercentOf(taxable_value, r.sgst_rate) ELSE 0
        igst_amount == IF intra THEN 0 ELSE PercentOf(taxable_value, r.igst_rate)
        cess_amount == IF intra THEN PercentOf(taxable_value, r.cess_rate) ELSE 0
    IN [quantity |-> a.quantity, rate |-> a.rate,
        discount_percent |-> a.discount_percent,
        discount_amount |-> a.discount_amount,
        taxable_value |-> taxable_value,
        cgst_rate |-> r.cgst_rate, sgst_rate |-> r.sgst_rate,
        igst_rate |-> r.igst_rate, cess_rate |-> r.cess_rate,
        cgst_amount |-> cgst_amount, sgst_amount |-> sgst_amount,
        igst_amount |-> igst_amount, cess_amount |-> cess_amount,
        line_total |-> taxable_value + cgst_amount + sgst_amount
                       + igst_amount + cess_amount]

CreateInvoiceLine(a, client_state, supply_state) ==
    LET r == LineRates(a, client_state, supply_state)
        taxable_value == a.taxable_value
        intra == client_state = supply_state
        cgst_amount == IF intra THEN PercentOf(taxable_value, r.cgst_rate) ELSE 0
        sgst_amount == IF intra THEN PercentOf(taxable_value, r.sgst_rate) ELSE 0
        igst_amount == IF intra THEN 0 ELSE PercentOf(taxable_value, r.igst_rate)
        cess_amount == PercentOf(taxable_value, r.cess_rate)
    IN [quantity |-> a.quantity, rate |-> a.rate,
        discount_percent |-> a.discount_percent,
        discount_amount |-> a.discount_amount,
        taxable_value |-> taxable_value,
        cgst_rate |-> r.cgst_rate, sgst_rate |-> r.sgst_rate,
        igst_rate |-> r.igst_rate, cess_rate |-> r.cess_rate,
        cgst_amount |-> cgst_amount, sgst_amount |-> sgst_amount,
        igst_amount |-> igst_amount, cess_amount |-> cess_amount,
        line_total |-> taxable_value + cgst_amount + sgst_amount
                       + igst_amount + cess_amount]

-----------------------------------------------------------------------------
(* InvoiceLine.calculate_taxes *)

calculate_taxes(l, place_of_supply, client_state) ==
    LET intra == place_of_supply = client_state
        cgst_amount == IF intra THEN PercentOf(l.taxable_value, l.cgst_rate) ELSE 0
        sgst_amount == IF intra THEN PercentOf(l.taxable_value, l.sgst_rate) ELSE 0
        igst_amount == IF intra THEN 0 ELSE PercentOf(l.taxable_value, l.igst_rate)
        cess_amount == PercentOf(l.taxable_value, l.cess_rate)
    IN [l EXCEPT !.cgst_amount = cgst_amount, !.sgst_amount = sgst_amount,
                 !.igst_amount = igst_amount, !.cess_amount = cess_amount,
                 !.line_total = l.taxable_value + cgst_amount + sgst_amount
                                + igst_amount + cess_amount]

-----------------------------------------------------------------------------
(* GSTComplianceEngine._validate_invoice_values: expected taxable value *)

expected_taxable_ignoresPercent(quantity, rate, discount_percent, discount_amount) ==
    quantity * rate - discount_amount

expected_taxable(quantity, rate, discount_percent, discount_amount) ==
    LET line_amount == quantity * rate
        expected_discount == IF discount_percent > 0
                             THEN PercentOf(line_amount, discount_percent)
                             ELSE discount_amount
    IN line_amount - expected_discount

-----------------------------------------------------------------------------
(* Line computation: inputs *)

NoLine == [none |-> TRUE]

NoInvoice == [none |-> TRUE]

NoResult == [outcome |-> "none"]

NoRequest == [none |-> TRUE]

NoCall == [fn |-> "none"]

\* (cgst_rate, sgst_rate, igst_rate) as a request may supply them
SuppliedRates ==
    { <<0, 0, 0>>, <<P(9), P(9), 0>>, <<P(9), P(5), 0>>,
      <<0, 0, P(18)>>, <<P(9), 0, 0>> }

\* (has_item, item.current_gst_rate, item.current_cess_rate)
Items ==
    { <<FALSE, 0, 0>>, <<TRUE, P(18), 0>>, <<TRUE, 2, P(1)>>, <<TRUE, 0, 0>> }

LineInputs ==
    { [quantity |-> q, rate |-> r, discount_percent |-> d, discount_amount |-> da,
       cgst_rate |-> sr[1], sgst_rate |-> sr[2], igst_rate |-> sr[3],
       cess_rate |-> cr,
       has_item |-> it[1], item_gst |-> it[2], item_cess |-> it[3],
       taxable_value |-> 0] :
      q \in 1..MaxQty, r \in {0, Rs(800)},
      d \in {-P(10), 0, P(10), P(100)}, da \in {0, Rs(80)},
      sr \in SuppliedRates, cr \in {0, P(1)}, it \in Items }

StatePairs == { [client_state |-> "27", supply_state |-> "27"],
                [client_state |-> "06", supply_state |-> "27"] }

-----------------------------------------------------------------------------
(* Line computation: the steps a line goes through *)

LineInit ==
    /\ pc = "line_received"
    /\ ld0 \in LineInputs
    /\ ld = ld0
    /\ ctx \in StatePairs
    /\ line = NoLine
    /\ mline = NoLine
    /\ inv = NoInvoice
    /\ res = NoResult
    /\ req = NoRequest /\ db = <<>> /\ resp = "none"
    /\ util = NoCall
    /\ heap = <<>> /\ engines = <<>> /\ calls = <<>>

LineValidate ==
    /\ pc = "line_received"
    /\ ld' = InvoiceLineSerializerValidate(ld)
    /\ pc' = "line_validated"
    /\ UNCHANGED <<ld0, ctx, line, mline, inv, res, requestVars, utilVars, threadVars>>

LineCreate ==
    /\ pc = "line_validated"
    /\ line' = CreateInvoiceLine(ld, ctx.client_state, ctx.supply_state)
    /\ pc' = "line_created"
    /\ UNCHANGED <<ld0, ld, ctx, mline, inv, res, requestVars, utilVars, threadVars>>

LineCalculateTaxes ==
    /\ pc = "line_created"
    /\ mline' = calculate_taxes(line, ctx.supply_state, ctx.client_state)
    /\ pc' = "line_done"
    /\ UNCHANGED <<ld0, ld, ctx, line, inv, res, requestVars, utilVars, threadVars>>

LineNext == LineValidate \/ LineCreate \/ LineCalculateTaxes

SpecLine == LineInit /\ [][LineNext]_vars

Intra == ctx.client_state = ctx.supply_state

\* every quotient the line computation takes is exact
ExactLine ==
    /\ (LineAmount(ld0) * ld0.discount_percent) % 800 = 0
    /\ line # NoLine =>
         \A p \in {line.cgst_rate, line.sgst_rate, line.igst_rate, line.cess_rate} :
            (line.taxable_value * p) % 800 = 0
    /\ ld0.item_gst % 2 = 0

-----------------------------------------------------------------------------
(* Values of the invoice_data dictionary handed to the engine.  A key that  *)
(* is not in the dictionary is Absent; text is a sequence of characters.    *)

Absent == [k |-> "absent"]
Txt(s) == [k |-> "str", s |-> s]
Num(n) == [k |-> "num", n |-> n]
\* a date object, in days relative to date.today()
Date(d) == [k |-> "date", d |-> d]
\* a date given as text: whether strptime('%Y-%m-%d') accepts it, and the day
DateStr(ok, d) == [k |-> "datestr", ok |-> ok, d |-> d]

\* Python truthiness: not v
Falsy(v) ==
    \/ v.k = "absent"
    \/ v.k = "str" /\ v.s = <<>>
    \/ v.k = "num" /\ v.n = 0

\* dict.get(key, '') on a text field
TextOf(v) == IF v.k = "str" THEN v.s ELSE <<>>

\* Decimal(str(d.get(key, 0))) raises InvalidOperation on non-numeric text
NotNumeric(v) == v.k = "str"

\* Decimal(str(d.get(key, 0)))
Dec(v) == IF v.k = "num" THEN v.n ELSE 0

Digit == {"0", "1", "2", "3", "4", "5", "6", "7", "8", "9"}

Upper == {"A", "B", "C", "D", "E", "F", "G", "H", "I", "J", "K", "L", "M",
          "N", "O", "P", "Q", "R", "S", "T", "U", "V", "W", "X", "Y", "Z"}

Lower == {"a", "b", "c", "d", "e", "f", "g", "h", "i", "j", "k", "l", "m",
          "n", "o", "p", "q", "r", "s", "t", "u", "v", "w", "x", "y", "z"}

DigitVal(c) ==
    CASE c = "0" -> 0 [] c = "1" -> 1 [] c = "2" -> 2 [] c = "3" -> 3
      [] c = "4" -> 4 [] c = "5" -> 5 [] c = "6" -> 6 [] c = "7" -> 7
      [] c = "8" -> 8 [] c = "9" -> 9

\* a pattern anchored with ^...$ is matched against the whole text or, when
\* the text ends in a newline, against the text before that newline
BeforeFinalNewline(s) ==
    IF Len(s) > 0 /\ s[Len(s)] = "\n" THEN SubSeq(s, 1, Len(s) - 1) ELSE s

\* STATE_CODES: the keys '01' .. '38'
InStateCodes(s) ==
    /\ Len(s) = 2
    /\ s[1] \in Digit /\ s[2] \in Digit
    /\ 10 * DigitVal(s[1]) + DigitVal(s[2]) \in 1..38

\* [0-9]{2}[A-Z]{5}[0-9]{4}[A-Z]{1}[1-9A-Z]{1}[Z]{1}[0-9A-Z]{1}
GstinBody(s) ==
    /\ Len(s) = 15
    /\ \A i \in {1, 2} : s[i] \in Digit
    /\ \A i \in 3..7 : s[i] \in Upper
    /\ \A i \in 8..11 : s[i] \in Digit
    /\ s[12] \in Upper
    /\ s[13] \in (Digit \ {"0"}) \cup Upper
    /\ s[14] = "Z"
    /\ s[15] \in Digit \cup Upper

gstin_pattern(s) == GstinBody(s) \/ GstinBody(BeforeFinalNewline(s))

\* [A-Za-z0-9\-\/\\]+
NumberBody(s) ==
    /\ Len(s) >= 1
    /\ \A i \in 1..Len(s) : s[i] \in Upper \cup Lower \cup Digit \cup {"-", "/", "\\"}

number_pattern(s) == NumberBody(s) \/ NumberBody(BeforeFinalNewline(s))

\* \d{6}
SacBody(s) == Len(s) = 6 /\ \A i \in 1..6 : s[i] \in Digit

sac_pattern(s) == SacBody(s) \/ SacBody(BeforeFinalNewline(s))

\* \d{4}(\d{2})?(\d{2})?
HsnBody(s) == Len(s) \in {4, 6, 8} /\ \A i \in 1..Len(s) : s[i] \in Digit

hsn_pattern(s) == HsnBody(s) \/ HsnBody(BeforeFinalNewline(s))

VALID_GST_RATES_noQuarter == {0, P(3), P(5), P(12), P(18), P(28)}

\* VALID_GST_RATES, in eighths of a percent
VALID_GST_RATES == {0, 2, P(3), P(5), P(12), P(18), P(28)}

VALID_CESS_RATES ==
    {0, P(1), P(2), P(3), P(4), P(5), P(10), P(15), P(20), P(25), P(50),
     P(100), P(200), P(290), P(400)}

\* Decimal('0.01'), in paise
Tolerance == 1

-----------------------------------------------------------------------------
(* The accumulator self.errors / self.warnings of one validate call *)

Acc0 == [errors |-> <<>>, warnings |-> <<>>, raised |-> FALSE]

Diag(code, arg, i) == [code |-> code, arg |-> arg, line |-> i]

\* an exception raised earlier in the call has ended it: nothing is appended
Err(acc, code, arg, i) ==
    IF acc.raised THEN acc
    ELSE [acc EXCEPT !.errors = Append(@, Diag(code, arg, i))]

ErrIf(cond, acc, code, arg, i) == IF cond THEN Err(acc, code, arg, i) ELSE acc

WarnIf(cond, acc, code) ==
    IF cond /\ ~acc.raised THEN [acc EXCEPT !.warnings = Append(@, code)] ELSE acc

Raise(acc) == [acc EXCEPT !.raised = TRUE]

\* invoice_data.get('client', {}) and invoice_data.get('tenant', {})
EmptyClient ==
    [k |-> "dict", name |-> Absent, client_type |-> "", gstin |-> Absent,
     state_code |-> Absent,
     billing_address |-> [address_line1 |-> FALSE, city |-> FALSE,
                          state |-> FALSE, pincode |-> FALSE]]

EmptyTenant ==
    [k |-> "dict", gstin |-> Absent, aato_threshold |-> Absent,
     e_invoice_enabled |-> FALSE]

ClientOf(d) == IF d.client.k = "dict" THEN d.client ELSE EmptyClient

TenantOf(d) == IF d.tenant.k = "dict" THEN d.tenant ELSE EmptyTenant

\* bool(client), bool(tenant): an empty dictionary is falsy
Truthy(dict, empty) == dict # empty

-----------------------------------------------------------------------------
(* GSTComplianceEngine._validate_mandatory_fields *)

MandatoryFieldNames ==
    <<"number", "date", "client", "place_of_supply",
      "taxable_amount", "total_tax", "grand_total">>

FieldFalsy(d, f) ==
    CASE f = "number" -> Falsy(d.number)
      [] f = "date" -> Falsy(d.date)
      [] f = "client" -> ~Truthy(ClientOf(d), EmptyClient)
      [] f = "place_of_supply" -> Falsy(d.place_of_supply)
      [] f = "taxable_amount" -> Falsy(d.taxable_amount)
      [] f = "total_tax" -> Falsy(d.total_tax)
      [] f = "grand_total" -> Falsy(d.grand_total)

RECURSIVE mandatory_fields_loop(_, _, _)
mandatory_fields_loop(d, j, acc) ==
    IF j > Len(MandatoryFieldNames) THEN acc
    ELSE mandatory_fields_loop(d, j + 1,
            ErrIf(FieldFalsy(d, MandatoryFieldNames[j]), acc,
                  "Rule-46 violation: Missing mandatory field",
                  MandatoryFieldNames[j], 0))

mandatory_line(l, i, acc) ==
    LET a1 == ErrIf(Falsy(l.description), acc,
                    "Rule-46 violation: Line missing description", "", i)
        a2 == ErrIf(Falsy(l.hsn_sac), a1,
                    "Rule-46 violation: Line missing HSN/SAC code", "", i)
    IN IF NotNumeric(l.taxable_value) THEN Raise(a2)
       ELSE ErrIf(Dec(l.taxable_value) <= 0, a2,
                  "Rule-46 violation: Line taxable value must be positive", "", i)

RECURSIVE mandatory_lines_loop(_, _, _)
mandatory_lines_loop(lines, i, acc) ==
    IF i > Len(lines) \/ acc.raised THEN acc
    ELSE mandatory_lines_loop(lines, i + 1, mandatory_line(lines[i], i, acc))

validate_mandatory_fields(d, acc) ==
    LET client == ClientOf(d)
        a1 == mandatory_fields_loop(d, 1, acc)
        a2 == ErrIf(/\ Truthy(client, EmptyClient)
                    /\ client.client_type = "b2b" /\ Falsy(client.gstin), a1,
                    "Rule-46 violation: GSTIN required for B2B clients", "", 0)
        a3 == ErrIf(Truthy(client, EmptyClient) /\ Falsy(client.name), a2,
                    "Rule-46 violation: Client name is mandatory", "", 0)
        a4 == ErrIf(d.lines = <<>>, a3,
                    "Rule-46 violation: Invoice must have at least one line item", "", 0)
    IN mandatory_lines_loop(d.lines, 1, a4)

-----------------------------------------------------------------------------
(* GSTComplianceEngine._validate_gstin_format *)

validate_gstin_rejectsAll(gstin, entity_name, acc) ==
    IF gstin = <<>> THEN acc
    ELSE Err(acc, "Invalid GSTIN format for", entity_name, 0)

validate_gstin(gstin, entity_name, acc) ==
    IF gstin = <<>> THEN acc
    ELSE IF ~gstin_pattern(gstin)
         THEN Err(acc, "Invalid GSTIN format for", entity_name, 0)
         ELSE ErrIf(~InStateCodes(SubSeq(gstin, 1, 2)), acc,
                    "Invalid state code in GSTIN for", entity_name, 0)

validate_gstin_format(d, acc) ==
    LET tenant == TenantOf(d)
        client == ClientOf(d)
        a1 == IF Truthy(tenant, EmptyTenant) /\ ~Falsy(tenant.gstin)
              THEN validate_gstin(TextOf(tenant.gstin), "Supplier", acc)
              ELSE acc
    IN IF Truthy(client, EmptyClient) /\ ~Falsy(client.gstin)
       THEN validate_gstin(TextOf(client.gstin), "Buyer", a1)
       ELSE a1

-----------------------------------------------------------------------------
(* GSTComplianceEngine._validate_invoice_details *)

validate_invoice_details(d, acc) ==
    LET invoice_number == TextOf(d.number)
        a1 == ErrIf(invoice_number # <<>> /\ Len(invoice_number) > 16, acc,
                    "Invoice number exceeds 16 character limit", "", 0)
        a2 == ErrIf(invoice_number # <<>> /\ ~number_pattern(invoice_number),
                    a1, "Invoice number contains invalid characters", "", 0)
        invoice_date == d.date
    IN IF Falsy(invoice_date) THEN a2
       ELSE IF invoice_date.k = "datestr" /\ ~invoice_date.ok
            THEN Err(a2, "Invalid invoice date format", "", 0)
            ELSE LET a3 == ErrIf(invoice_date.d > 0, a2,
                                 "Invoice date cannot be in future", "", 0)
                 IN WarnIf(invoice_date.d < -730, a3,
                           "Invoice date is older than 2 years")

-----------------------------------------------------------------------------
(* GSTComplianceEngine._validate_tax_rates *)

tax_rates_line(d, l, i, acc) ==
    IF \E v \in {l.cgst_rate, l.sgst_rate, l.igst_rate, l.cess_rate} : NotNumeric(v)
    THEN Raise(acc)
    ELSE
    LET cgst_rate == Dec(l.cgst_rate)
        sgst_rate == Dec(l.sgst_rate)
        igst_rate == Dec(l.igst_rate)
        cess_rate == Dec(l.cess_rate)
        total_gst == cgst_rate + sgst_rate + igst_rate
        client_state == ClientOf(d).state_code
        place_of_supply == d.place_of_supply
        \* .get('state_code', '') == .get('place_of_supply', '')
        intra == TextOf(client_state) = TextOf(place_of_supply)
        a1 == ErrIf(total_gst \notin VALID_GST_RATES, acc,
                    "Line: Invalid GST rate", "", i)
        a2 == ErrIf(cess_rate \notin VALID_CESS_RATES, a1,
                    "Line: Invalid CESS rate", "", i)
    IN IF intra
       THEN LET a3 == ErrIf(igst_rate > 0, a2,
                            "Line: IGST not applicable for intra-state supply", "", i)
            IN ErrIf(cgst_rate # sgst_rate, a3,
                     "Line: CGST and SGST rates must be equal for intra-state supply", "", i)
       ELSE LET a3 == ErrIf(cgst_rate > 0 \/ sgst_rate > 0, a2,
                            "Line: CGST/SGST not applicable for inter-state supply", "", i)
            IN ErrIf(igst_rate = 0 /\ total_gst > 0, a3,
                     "Line: IGST required for inter-state supply", "", i)

RECURSIVE tax_rates_loop(_, _, _)
tax_rates_loop(d, i, acc) ==
    IF i > Len(d.lines) \/ acc.raised THEN acc
    ELSE tax_rates_loop(d, i + 1, tax_rates_line(d, d.lines[i], i, acc))

validate_tax_rates(d, acc) == tax_rates_loop(d, 1, acc)

-----------------------------------------------------------------------------
(* GSTComplianceEngine._validate_place_of_supply *)

validate_place_of_supply(d, acc) ==
    LET place_of_supply == TextOf(d.place_of_supply)
        client == ClientOf(d)
        has_goods == \E i \in 1..Len(d.lines) : ~d.lines[i].is_service
        has_services == \E i \in 1..Len(d.lines) : d.lines[i].is_service
    IN IF place_of_supply = <<>>
       THEN Err(acc, "Place of supply is mandatory", "", 0)
       ELSE LET a1 == ErrIf(~InStateCodes(place_of_supply), acc,
                            "Invalid place of supply code", "", 0)
            IN WarnIf(/\ Truthy(client, EmptyClient) /\ client.client_type = "b2b"
                      /\ has_goods /\ has_services, a1,
                      "Mixed supply (goods + services) requires careful place of supply determination")

-----------------------------------------------------------------------------
(* GSTComplianceEngine._validate_hsn_sac_codes *)

hsn_sac_line(d, l, i, acc) ==
    LET hsn_sac == TextOf(l.hsn_sac)
        tenant == TenantOf(d)
    IN IF hsn_sac = <<>>
       THEN Err(acc, "Line: HSN/SAC code is mandatory", "", i)
       ELSE IF l.is_service
            THEN ErrIf(~sac_pattern(hsn_sac), acc,
                       "Line: Invalid SAC code format. Must be 6 digits", "", i)
            ELSE LET a1 == ErrIf(~hsn_pattern(hsn_sac), acc,
                                 "Line: Invalid HSN code format. Must be 4, 6, or 8 digits", "", i)
                 IN IF Truthy(tenant, EmptyTenant) /\ NotNumeric(tenant.aato_threshold)
                    THEN Raise(a1)
                    ELSE ErrIf(/\ Truthy(tenant, EmptyTenant)
                               /\ Dec(tenant.aato_threshold) > 50000000
                               /\ Len(hsn_sac) < 6, a1,
                               "Line: 6-digit HSN mandatory for turnover > 5 crores", "", i)

RECURSIVE hsn_sac_loop(_, _, _)
hsn_sac_loop(d, i, acc) ==
    IF i > Len(d.lines) \/ acc.raised THEN acc
    ELSE hsn_sac_loop(d, i + 1, hsn_sac_line(d, d.lines[i], i, acc))

validate_hsn_sac_codes(d, acc) == hsn_sac_loop(d, 1, acc)

-----------------------------------------------------------------------------
(* GSTComplianceEngine._validate_invoice_values *)

\* abs(expected - actual) > Decimal('0.01')
Differs_strict(expected, actual) == Abs(expected - actual) >= Tolerance

Differs(expected, actual) == Abs(expected - actual) > Tolerance

line_tax_total(l) ==
    Dec(l.cgst_amount) + Dec(l.sgst_amount) + Dec(l.igst_amount) + Dec(l.cess_amount)

invoice_values_line(l, i, acc) ==
    IF \E v \in {l.quantity, l.rate, l.discount_percent, l.discount_amount,
                 l.taxable_value} : NotNumeric(v)
    THEN Raise(acc)
    ELSE
    LET expected == expected_taxable(Dec(l.quantity), Dec(l.rate),
                                     Dec(l.discount_percent), Dec(l.discount_amount))
        actual_taxable == Dec(l.taxable_value)
        a1 == ErrIf(Differs(expected, actual_taxable), acc,
                    "Line: Taxable value calculation error", "", i)
        expected_line_total == actual_taxable + line_tax_total(l)
    IN IF \E v \in {l.cgst_amount, l.sgst_amount, l.igst_amount, l.cess_amount,
                    l.line_total} : NotNumeric(v)
       THEN Raise(a1)
       ELSE ErrIf(Differs(expected_line_total, Dec(l.line_total)), a1,
                  "Line: Line total calculation error", "", i)

RECURSIVE invoice_values_loop(_, _, _)
invoice_values_loop(lines, i, acc) ==
    IF i > Len(lines) \/ acc.raised THEN acc
    ELSE invoice_values_loop(lines, i + 1, invoice_values_line(lines[i], i, acc))

RECURSIVE calculated_subtotal(_, _)
calculated_subtotal(lines, n) ==
    IF n = 0 THEN 0
    ELSE calculated_subtotal(lines, n - 1) + Dec(lines[n].taxable_value)

RECURSIVE calculated_tax_total(_, _)
calculated_tax_total(lines, n) ==
    IF n = 0 THEN 0
    ELSE calculated_tax_total(lines, n - 1) + line_tax_total(lines[n])

validate_invoice_values(d, acc) ==
    LET a1 == invoice_values_loop(d.lines, 1, acc)
    IN IF a1.raised THEN a1
       ELSE IF NotNumeric(d.taxable_amount) \/ NotNumeric(d.total_tax)
            THEN Raise(a1)
            ELSE LET a2 == ErrIf(Differs(calculated_subtotal(d.lines, Len(d.lines)),
                                         Dec(d.taxable_amount)), a1,
                                 "Invoice subtotal calculation error", "", 0)
                 IN ErrIf(Differs(calculated_tax_total(d.lines, Len(d.lines)),
                                  Dec(d.total_tax)), a2,
                          "Invoice tax total calculation error", "", 0)

-----------------------------------------------------------------------------
(* GSTComplianceEngine._validate_b2b_requirements *)

required_address_fields == <<"address_line1", "city", "state", "pincode">>

AddressHas(b, f) ==
    CASE f = "address_line1" -> b.address_line1
      [] f = "city" -> b.city
      [] f = "state" -> b.state
      [] f = "pincode" -> b.pincode

RECURSIVE b2b_address_loop(_, _, _)
b2b_address_loop(b, j, acc) ==
    IF j > Len(required_address_fields) THEN acc
    ELSE b2b_address_loop(b, j + 1,
            ErrIf(~AddressHas(b, required_address_fields[j]), acc,
                  "B2B requirement: Client field is mandatory",
                  required_address_fields[j], 0))

validate_b2b_requirements_gstinOnce(d, acc) ==
    LET client == ClientOf(d)
        a2 == b2b_address_loop(client.billing_address, 1, acc)
    IN ErrIf(Falsy(client.state_code), a2,
             "B2B requirement: Client state code is mandatory", "", 0)

validate_b2b_requirements(d, acc) ==
    LET client == ClientOf(d)
        a1 == ErrIf(Falsy(client.gstin), acc,
                    "GSTIN is mandatory for B2B transactions", "", 0)
        a2 == b2b_address_loop(client.billing_address, 1, a1)
    IN ErrIf(Falsy(client.state_code), a2,
             "B2B requirement: Client state code is mandatory", "", 0)

-----------------------------------------------------------------------------
(* GSTComplianceEngine._validate_aato_compliance *)

validate_aato_compliance_atThreshold(d, acc) ==
    LET tenant == TenantOf(d)
    IN IF NotNumeric(d.grand_total) THEN Raise(acc)
       ELSE
       LET invoice_value == Dec(d.grand_total)
           a1 == WarnIf(invoice_value >= Rs(50000), acc,
                        "High-value transaction: Additional documentation may be required")
           a2 == WarnIf(invoice_value > Rs(200000), a1,
                        "Transaction above Rs.2 Lakh: Enhanced compliance requirements apply")
       IN WarnIf(/\ invoice_value >= Rs(50000) /\ tenant.e_invoice_enabled
                 /\ ~d.einvoice_details, a2,
                 "E-invoice generation recommended for transactions >= Rs.50,000")

validate_aato_compliance(d, acc) ==
    LET tenant == TenantOf(d)
    IN IF NotNumeric(d.grand_total) THEN Raise(acc)
       ELSE
       LET invoice_value == Dec(d.grand_total)
           a1 == WarnIf(invoice_value > Rs(50000), acc,
                        "High-value transaction: Additional documentation may be required")
           a2 == WarnIf(invoice_value > Rs(200000), a1,
                        "Transaction above Rs.2 Lakh: Enhanced compliance requirements apply")
       IN WarnIf(/\ invoice_value >= Rs(50000) /\ tenant.e_invoice_enabled
                 /\ ~d.einvoice_details, a2,
                 "E-invoice generation recommended for transactions >= Rs.50,000")

-----------------------------------------------------------------------------
(* GSTComplianceEngine.validate_invoice_rule_46 *)

\* len(self.errors) == 0
IsValid_noWarnings(acc) == acc.errors = <<>> /\ acc.warnings = <<>>

IsValid(acc) == acc.errors = <<>>

\* if invoice_data.get('client', {}).get('client_type') == 'b2b'
b2b_if_client_type_always(d, acc) == validate_b2b_requirements(d, acc)

b2b_if_client_type(d, acc) ==
    IF ClientOf(d).client_type = "b2b" THEN validate_b2b_requirements(d, acc) ELSE acc

\* the checks in the order of the code; an exception raised by one of them
\* ends the call
RunChecks_shortCircuit(d) ==
    LET a1 == validate_mandatory_fields(d, Acc0)
        a2 == IF a1.raised \/ a1.errors # <<>> THEN a1 ELSE validate_gstin_format(d, a1)
        a3 == IF a2.raised \/ a2.errors # <<>> THEN a2 ELSE validate_invoice_details(d, a2)
        a4 == IF a3.raised \/ a3.errors # <<>> THEN a3 ELSE validate_tax_rates(d, a3)
        a5 == IF a4.raised \/ a4.errors # <<>> THEN a4 ELSE validate_place_of_supply(d, a4)
        a6 == IF a5.raised \/ a5.errors # <<>> THEN a5 ELSE validate_hsn_sac_codes(d, a5)
        a7 == IF a6.raised \/ a6.errors # <<>> THEN a6 ELSE validate_invoice_values(d, a6)
        a8 == IF a7.raised \/ a7.errors # <<>> \/ ClientOf(d).client_type # "b2b"
              THEN a7 ELSE validate_b2b_requirements(d, a7)
    IN IF a8.raised \/ a8.errors # <<>> THEN a8 ELSE validate_aato_compliance(d, a8)

RunChecks(d) ==
    validate_aato_compliance(d,
      b2b_if_client_type(d,
        validate_invoice_values(d,
          validate_hsn_sac_codes(d,
            validate_place_of_supply(d,
              validate_tax_rates(d,
                validate_invoice_details(d,
                  validate_gstin_format(d,
                    validate_mandatory_fields(d, Acc0)))))))))

\* return len(self.errors) == 0, self.errors, self.warnings
Returns(acc) ==
    IF acc.raised
    THEN [outcome |-> "raised", is_valid |-> FALSE,
          errors |-> acc.errors, warnings |-> acc.warnings]
    ELSE [outcome |-> "returned", is_valid |-> IsValid(acc),
          errors |-> acc.errors, warnings |-> acc.warnings]

validate_invoice_rule_46(d) == Returns(RunChecks(d))

-----------------------------------------------------------------------------
(* Claims about the line computation *)

LineCreated == pc \in {"line_created", "line_done"}

Gross0 == ld0.quantity * ld0.rate

\* C1: after InvoiceLineSerializer.validate the taxable value is
\* quantity*rate minus the discount, the discount being
\* quantity*rate*discount_percent/100 when discount_percent > 0 (whatever
\* discount_amount was supplied) and the supplied discount_amount otherwise;
\* the validator's expected taxable value for that line is the same number.
C1_TaxableValue ==
    pc # "line_received" =>
        /\ ld0.discount_percent > 0 =>
              /\ 800 * ld.discount_amount = Gross0 * ld0.discount_percent
              /\ ld.taxable_value = Gross0 - ld.discount_amount
        /\ ~(ld0.discount_percent > 0) =>
              /\ ld.discount_amount = ld0.discount_amount
              /\ ld.taxable_value = Gross0 - ld0.discount_amount
        /\ expected_taxable(ld.quantity, ld.rate, ld.discount_percent,
                            ld.discount_amount) = ld.taxable_value

C1_Witness ==
    /\ pc = "line_validated"
    /\ ld0.discount_percent = P(10) /\ ld0.discount_amount = Rs(80)
    /\ ld0.quantity = 2 /\ ld0.rate = Rs(800)
    /\ ld.taxable_value = Rs(1440)

\* C2 (as stated): every line computed for an intra-state supply has
\* cgst_rate = sgst_rate and igst_amount = 0, whether the rates were supplied
\* on the line or derived from the item's rate.
C2_Original ==
    (LineCreated /\ Intra) =>
        /\ line.cgst_rate = line.sgst_rate
        /\ line.igst_amount = 0

\* C2 (amended): every line computed for an intra-state supply has
\* igst_amount = 0; when the rates are derived from the item's combined rate
\* cgst_rate = sgst_rate = total_gst_rate/2 and igst_rate = 0; rates supplied
\* on the line are kept as supplied, so cgst_rate = sgst_rate exactly when
\* they were supplied equal.
C2_IntraState ==
    (LineCreated /\ Intra) =>
        /\ line.igst_amount = 0
        /\ UsesItemRates(ld) =>
              /\ line.cgst_rate = line.sgst_rate
              /\ 2 * line.cgst_rate = ld.item_gst
              /\ line.igst_rate = 0
        /\ ~UsesItemRates(ld) =>
              /\ line.cgst_rate = ld0.cgst_rate
              /\ line.sgst_rate = ld0.sgst_rate
              /\ line.igst_rate = ld0.igst_rate

C2_Witness ==
    /\ pc = "line_created" /\ Intra
    /\ UsesItemRates(ld) /\ ld.item_gst = P(18)
    /\ line.cgst_rate = P(9) /\ line.sgst_rate = P(9)
    /\ line.taxable_value > 0 /\ line.cgst_amount > 0

\* combined GST rate of a line: the item's rate when it is used, else the
\* sum of the supplied rates
CombinedRate(a) ==
    IF UsesItemRates(a) THEN a.item_gst
    ELSE a.cgst_rate + a.sgst_rate + a.igst_rate

\* C3 (as stated): every line computed for an inter-state supply with a
\* combined GST rate > 0, quantity > 0, rate >= 0 and discount_percent in
\* [0,100] has cgst_amount = sgst_amount = 0 and igst_amount > 0.
C3_Original ==
    (/\ LineCreated /\ ~Intra
     /\ CombinedRate(ld) > 0
     /\ ld0.quantity > 0 /\ ld0.rate >= 0
     /\ ld0.discount_percent >= 0 /\ ld0.discount_percent <= P(100)) =>
        /\ line.cgst_amount = 0 /\ line.sgst_amount = 0
        /\ line.igst_amount > 0

\* C3 (amended): every line computed for an inter-state supply has
\* cgst_amount = sgst_amount = 0 and igst_amount = taxable_value*igst_rate/100;
\* igst_amount > 0 when taxable_value > 0 and either the rate is derived from
\* an item whose GST rate is > 0 or an IGST rate > 0 is supplied on the line;
\* igst_amount = 0 when taxable_value = 0 (rate 0 or a 100% discount).
C3_InterState ==
    (LineCreated /\ ~Intra) =>
        /\ line.cgst_amount = 0 /\ line.sgst_amount = 0
        /\ 800 * line.igst_amount = line.taxable_value * line.igst_rate
        /\ (/\ line.taxable_value > 0
            /\ \/ UsesItemRates(ld) /\ ld.item_gst > 0
               \/ ~UsesItemRates(ld) /\ ld0.igst_rate > 0) => line.igst_amount > 0
        /\ line.taxable_value = 0 => line.igst_amount = 0

C3_Witness ==
    /\ pc = "line_created" /\ ~Intra
    /\ UsesItemRates(ld) /\ ld.item_gst = P(18)
    /\ ld0.discount_percent = P(10)
    /\ line.taxable_value = Rs(720)
    /\ line.igst_amount = 12960 /\ line.cgst_amount = 0 /\ line.sgst_amount = 0

\* C4: in both jurisdictions cess_amount = taxable_value*cess_rate/100 and
\* line_total = taxable_value + cgst + sgst + igst + cess amounts; and
\* InvoiceLine.calculate_taxes gives the created line the same amounts.
C4_CessAndTotal ==
    /\ LineCreated =>
          /\ 800 * line.cess_amount = line.taxable_value * line.cess_rate
          /\ line.line_total = line.taxable_value + line.cgst_amount
                               + line.sgst_amount + line.igst_amount
                               + line.cess_amount
    /\ pc = "line_done" => mline = line

C4_Witness ==
    /\ pc = "line_done" /\ ~Intra
    /\ line.cess_rate = P(1) /\ line.cess_amount > 0
    /\ line.igst_amount > 0
    /\ mline.cess_amount = line.cess_amount
    /\ mline.line_total = line.line_total

-----------------------------------------------------------------------------
(* Engine inputs *)

GSTIN_27 == <<"2", "7", "A", "B", "C", "D", "E", "1", "2", "3", "4", "F", "1", "Z", "5">>

GSTIN_06 == <<"0", "6", "A", "B", "C", "D", "E", "1", "2", "3", "4", "F", "1", "Z", "5">>

GSTIN_SUPPLIER == <<"2", "7", "X", "Y", "Z", "P", "Q", "9", "8", "7", "6", "R", "1", "Z", "1">>

\* 'INVALID_GSTIN'
GSTIN_MALFORMED == <<"I", "N", "V", "A", "L", "I", "D", "_", "G", "S", "T", "I", "N">>

FullAddress == [address_line1 |-> TRUE, city |-> TRUE, state |-> TRUE, pincode |-> TRUE]

ClientB2B ==
    [k |-> "dict", name |-> Txt(<<"C">>), client_type |-> "b2b",
     gstin |-> Txt(GSTIN_27), state_code |-> Txt(<<"2", "7">>),
     billing_address |-> FullAddress]

Clients ==
    { ClientB2B,
      [ClientB2B EXCEPT !.gstin = Txt(GSTIN_MALFORMED)],
      [ClientB2B EXCEPT !.gstin = Absent,
                        !.billing_address = EmptyClient.billing_address],
      [ClientB2B EXCEPT !.gstin = Txt(GSTIN_06), !.state_code = Txt(<<"0", "6">>)],
      [ClientB2B EXCEPT !.client_type = "b2c", !.gstin = Txt(<<>>),
                        !.billing_address = EmptyClient.billing_address],
      Absent }

TenantOK ==
    [k |-> "dict", gstin |-> Txt(GSTIN_SUPPLIER), aato_threshold |-> Num(5000000),
     e_invoice_enabled |-> TRUE]

\* the line of the valid invoice of test_compliance_validation, at rate 800
BaseLine ==
    [description |-> Txt(<<"S">>),
     hsn_sac |-> Txt(<<"9", "9", "8", "3", "1", "4">>), is_service |-> TRUE,
     quantity |-> Num(1), rate |-> Num(Rs(800)),
     discount_percent |-> Num(0), discount_amount |-> Num(0),
     taxable_value |-> Num(Rs(800)),
     cgst_rate |-> Num(P(9)), sgst_rate |-> Num(P(9)), igst_rate |-> Num(0),
     cess_rate |-> Num(0),
     cgst_amount |-> Num(Rs(72)), sgst_amount |-> Num(Rs(72)),
     igst_amount |-> Num(0), cess_amount |-> Num(0),
     line_total |-> Num(Rs(944))]

\* lines that differ in what the header checks look at
HeaderLines ==
    { BaseLine,
      [BaseLine EXCEPT !.hsn_sac = Txt(<<>>)],
      [BaseLine EXCEPT !.hsn_sac = Txt(<<"1", "0", "0", "1">>), !.is_service = FALSE],
      [BaseLine EXCEPT !.cgst_rate = Num(P(15)), !.sgst_rate = Num(P(13)),
                       !.cgst_amount = Num(Rs(120)), !.sgst_amount = Num(Rs(104)),
                       !.line_total = Num(Rs(1024))],
      [BaseLine EXCEPT !.quantity = Txt(<<"x">>)] }

\* lines that differ in their amounts
ValueLines ==
    { [BaseLine EXCEPT !.taxable_value = Num(Rs(800) + d1),
                       !.line_total = Num(Rs(944) + d1 + d2)] :
        d1 \in {0, 1, 2}, d2 \in {0, -1, 2} }
    \cup
    { [BaseLine EXCEPT !.cgst_amount = Num(Rs(10)), !.sgst_amount = Num(Rs(10)),
                       !.line_total = Num(Rs(820))],
      [BaseLine EXCEPT !.cgst_amount = Num(0), !.sgst_amount = Num(0),
                       !.igst_amount = Num(Rs(144))],
      [BaseLine EXCEPT !.discount_percent = Num(P(10)),
                       !.discount_amount = Num(Rs(500)),
                       !.taxable_value = Num(Rs(720)),
                       !.cgst_amount = Num(6480), !.sgst_amount = Num(6480),
                       !.line_total = Num(84960)] }

\* sequences of at most MaxLines lines
SeqsUpTo(S) == UNION { [1..n -> S] : n \in 0..MaxLines }

BaseInvoice(lines, dt, dx) ==
    [number |-> Txt(<<"I", "N", "V", "0", "0", "1">>),
     date |-> Date(0),
     client |-> ClientB2B,
     tenant |-> TenantOK,
     place_of_supply |-> Txt(<<"2", "7">>),
     taxable_amount |-> Num(calculated_subtotal(lines, Len(lines)) + dt),
     total_tax |-> Num(calculated_tax_total(lines, Len(lines)) + dx),
     grand_total |-> Num(Rs(944)),
     einvoice_details |-> FALSE,
     lines |-> lines]

HeaderInputs ==
    { [BaseInvoice(lines, 0, 0) EXCEPT !.number = n, !.date = dt, !.client = c,
                                       !.tenant = t, !.place_of_supply = pos,
                                       !.grand_total = g] :
        lines \in SeqsUpTo(HeaderLines),
        n \in {Txt(<<"I", "N", "V", "0", "0", "1">>), Txt(<<>>), Absent},
        dt \in {Date(0), Date(-731), Date(1), DateStr(FALSE, 0)},
        c \in Clients,
        t \in {TenantOK, Absent},
        pos \in {Txt(<<"2", "7">>), Txt(<<"9", "9">>), Absent},
        g \in {Num(Rs(944)), Num(Rs(60000)), Num(0)} }

ValueInputs ==
    { BaseInvoice(lines, dt, dx) :
        lines \in SeqsUpTo(ValueLines), dt \in {0, 1, 2}, dx \in {0, -1, -2} }

-----------------------------------------------------------------------------
(* A validate call on a fresh GSTComplianceEngine *)

EngineInit ==
    /\ pc = "engine_ready"
    /\ inv \in HeaderInputs \cup ValueInputs
    /\ res = NoResult
    /\ ld0 = NoLine /\ ld = NoLine /\ ctx = NoLine /\ line = NoLine /\ mline = NoLine
    /\ req = NoRequest /\ db = <<>> /\ resp = "none"
    /\ util = NoCall
    /\ heap = <<>> /\ engines = <<>> /\ calls = <<>>

ValidateCall ==
    /\ pc = "engine_ready"
    /\ res' = validate_invoice_rule_46(inv)
    /\ pc' = IF res'.outcome = "raised" THEN "engine_raised" ELSE "engine_returned"
    /\ UNCHANGED <<inv, lineVars, requestVars, utilVars, threadVars>>

EngineNext == ValidateCall

SpecEngine == EngineInit /\ [][EngineNext]_vars

-----------------------------------------------------------------------------
(* Claims about validate_invoice_rule_46 *)

Returned == pc = "engine_returned"

HasError(code) == \E i \in 1..Len(res.errors) : res.errors[i].code = code

HasLineError(code, n) ==
    \E i \in 1..Len(res.errors) : res.errors[i].code = code /\ res.errors[i].line = n

\* C5: validate returns is_valid = True exactly when the returned errors list
\* is empty, however many warnings it returns.
C5_ValidIffNoErrors ==
    Returned => (res.is_valid <=> Len(res.errors) = 0)

C5_Witness ==
    /\ Returned
    /\ res.is_valid
    /\ Len(res.warnings) >= 2

\* every numeric field of the input holds a number or is missing
WellTyped(d) ==
    /\ \A v \in {d.taxable_amount, d.total_tax, d.grand_total,
                 TenantOf(d).aato_threshold} : ~NotNumeric(v)
    /\ \A i \in 1..Len(d.lines) :
         \A v \in {d.lines[i].quantity, d.lines[i].rate,
                   d.lines[i].discount_percent, d.lines[i].discount_amount,
                   d.lines[i].taxable_value, d.lines[i].line_total,
                   d.lines[i].cgst_rate, d.lines[i].sgst_rate,
                   d.lines[i].igst_rate, d.lines[i].cess_rate,
                   d.lines[i].cgst_amount, d.lines[i].sgst_amount,
                   d.lines[i].igst_amount, d.lines[i].cess_amount} : ~NotNumeric(v)

\* C6: on a well-typed input (fields may be missing or empty) validate returns
\* without raising, and the errors it returns are, group after group, the
\* errors each check group reports on its own: no group's finding hides
\* another's.  A line without HSN together with a malformed buyer GSTIN gives
\* an invalid invoice whose errors name both.
C6_NoShortCircuit ==
    (pc # "engine_ready" /\ WellTyped(inv)) =>
        /\ res.outcome = "returned"
        /\ res.errors =
              validate_mandatory_fields(inv, Acc0).errors
              \o validate_gstin_format(inv, Acc0).errors
              \o validate_invoice_details(inv, Acc0).errors
              \o validate_tax_rates(inv, Acc0).errors
              \o validate_place_of_supply(inv, Acc0).errors
              \o validate_hsn_sac_codes(inv, Acc0).errors
              \o validate_invoice_values(inv, Acc0).errors
              \o (IF ClientOf(inv).client_type = "b2b"
                  THEN validate_b2b_requirements(inv, Acc0).errors ELSE <<>>)
        /\ \A n \in 1..Len(inv.lines) :
              Falsy(inv.lines[n].hsn_sac) =>
                 /\ HasLineError("Rule-46 violation: Line missing HSN/SAC code", n)
                 /\ HasLineError("Line: HSN/SAC code is mandatory", n)
        /\ (/\ inv.client.k = "dict" /\ ~Falsy(inv.client.gstin)
            /\ inv.client.gstin.s = GSTIN_MALFORMED) =>
                 \E i \in 1..Len(res.errors) :
                    /\ res.errors[i].code = "Invalid GSTIN format for"
                    /\ res.errors[i].arg = "Buyer"

C6_Witness ==
    /\ Returned
    /\ Len(inv.lines) = 1 /\ Falsy(inv.lines[1].hsn_sac)
    /\ inv.client.k = "dict" /\ inv.client.gstin = Txt(GSTIN_MALFORMED)
    /\ ~res.is_valid
    /\ HasLineError("Line: HSN/SAC code is mandatory", 1)
    /\ HasError("Invalid GSTIN format for")

\* the discount the engine expects on a line
LineDiscount(l) ==
    IF l.discount_percent.n > 0
    THEN (l.quantity.n * l.rate.n * l.discount_percent.n) \div 800
    ELSE l.discount_amount.n

TaxableGap(l) ==
    Abs((l.quantity.n * l.rate.n - LineDiscount(l)) - l.taxable_value.n)

LineTotalGap(l) ==
    Abs(l.taxable_value.n + l.cgst_amount.n + l.sgst_amount.n
        + l.igst_amount.n + l.cess_amount.n - l.line_total.n)

TaxOf(l) == l.cgst_amount.n + l.sgst_amount.n + l.igst_amount.n + l.cess_amount.n

RECURSIVE SumTaxable(_, _)
SumTaxable(lines, n) ==
    IF n = 0 THEN 0 ELSE SumTaxable(lines, n - 1) + lines[n].taxable_value.n

RECURSIVE SumTax(_, _)
SumTax(lines, n) ==
    IF n = 0 THEN 0 ELSE SumTax(lines, n - 1) + TaxOf(lines[n])

SubtotalGap == Abs(SumTaxable(inv.lines, Len(inv.lines)) - inv.taxable_amount.n)

TaxTotalGap == Abs(SumTax(inv.lines, Len(inv.lines)) - inv.total_tax.n)

\* C7: an invoice reported valid has, on every line, the taxable value and
\* the line total within 0.01 of the recomputed ones, and the invoice's
\* taxable_amount and total_tax within 0.01 of the sums over its lines; a gap
\* of exactly 0.01 raises no error and every larger gap raises its error.
C7_Reconciliation ==
    (Returned /\ inv \in ValueInputs) =>
        /\ res.is_valid =>
              /\ \A n \in 1..Len(inv.lines) :
                    TaxableGap(inv.lines[n]) <= 1 /\ LineTotalGap(inv.lines[n]) <= 1
              /\ SubtotalGap <= 1 /\ TaxTotalGap <= 1
        /\ \A n \in 1..Len(inv.lines) :
              /\ HasLineError("Line: Taxable value calculation error", n)
                   <=> TaxableGap(inv.lines[n]) > 1
              /\ HasLineError("Line: Line total calculation error", n)
                   <=> LineTotalGap(inv.lines[n]) > 1
        /\ HasError("Invoice subtotal calculation error") <=> SubtotalGap > 1
        /\ HasError("Invoice tax total calculation error") <=> TaxTotalGap > 1

C7_Witness ==
    /\ Returned /\ inv \in ValueInputs
    /\ res.is_valid
    /\ Len(inv.lines) >= 1
    /\ TaxableGap(inv.lines[1]) = 1 /\ LineTotalGap(inv.lines[1]) = 1
    /\ SubtotalGap = 1 /\ TaxTotalGap = 1

\* C8 (as stated): an invoice reported valid has, on every line, each tax
\* amount within 0.01 of taxable_value * rate / 100; so igst_amount = 0 on an
\* intra-state line and cgst_amount = sgst_amount = 0 on an inter-state one.
C8_AmountsMatchRates ==
    (Returned /\ inv \in ValueInputs /\ res.is_valid) =>
        \A n \in 1..Len(inv.lines) :
            LET l == inv.lines[n]
                Off(amount, r) == Abs(800 * amount.n - l.taxable_value.n * r.n) > 800
            IN /\ ~Off(l.cgst_amount, l.cgst_rate)
               /\ ~Off(l.sgst_amount, l.sgst_rate)
               /\ ~Off(l.igst_amount, l.igst_rate)
               /\ ~Off(l.cess_amount, l.cess_rate)

-----------------------------------------------------------------------------
(* InvoiceSerializer.validate: the generated invoice number *)

\* str.replace(series, ''): every occurrence of series is removed
RECURSIVE Remove(_, _)
Remove(s, sub) ==
    IF sub = <<>> \/ Len(s) < Len(sub) THEN s
    ELSE IF SubSeq(s, 1, Len(sub)) = sub
         THEN Remove(SubSeq(s, Len(sub) + 1, Len(s)), sub)
         ELSE <<Head(s)>> \o Remove(Tail(s), sub)

AllDigits(s) == Len(s) >= 1 /\ \A i \in 1..Len(s) : s[i] \in Digit

\* int(text) accepts an optional sign followed by digits (the blanks and
\* underscores it also accepts do not occur in the numbers drawn below)
IntParses(s) ==
    \/ AllDigits(s)
    \/ Len(s) >= 2 /\ s[1] \in {"-", "+"} /\ AllDigits(Tail(s))

RECURSIVE DigitsValue(_, _)
DigitsValue(s, n) ==
    IF n = 0 THEN 0 ELSE 10 * DigitsValue(s, n - 1) + DigitVal(s[n])

IntOf(s) ==
    IF s[1] = "-" THEN 0 - DigitsValue(Tail(s), Len(s) - 1)
    ELSE IF s[1] = "+" THEN DigitsValue(Tail(s), Len(s) - 1)
    ELSE DigitsValue(s, Len(s))

DigitChar(n) ==
    CASE n = 0 -> "0" [] n = 1 -> "1" [] n = 2 -> "2" [] n = 3 -> "3"
      [] n = 4 -> "4" [] n = 5 -> "5" [] n = 6 -> "6" [] n = 7 -> "7"
      [] n = 8 -> "8" [] n = 9 -> "9"

RECURSIVE Digits(_)
Digits(n) ==
    IF n < 10 THEN <<DigitChar(n)>>
    ELSE Append(Digits(n \div 10), DigitChar(n % 10))

RECURSIVE ZeroPad(_, _)
ZeroPad(s, w) == IF Len(s) >= w THEN s ELSE ZeroPad(<<"0">> \o s, w)

\* f"{next_num:04d}": the sign counts in the width
Format04d(n) ==
    IF n < 0 THEN <<"-">> \o ZeroPad(Digits(0 - n), 3) ELSE ZeroPad(Digits(n), 4)

\* Invoice.objects.filter(tenant=tenant, series=series)
SameSeries(d, series) == { i \in 1..Len(d) : d[i].series = series }

\* .order_by('-created_at').first()
LastOf(S) == CHOOSE i \in S : \A j \in S : j <= i

last_num(number, series) ==
    IF IntParses(Remove(number, series)) THEN IntOf(Remove(number, series)) ELSE 0

next_num(d, series) ==
    IF SameSeries(d, series) = {} \/ d[LastOf(SameSeries(d, series))].number = <<>>
    THEN 1
    ELSE last_num(d[LastOf(SameSeries(d, series))].number, series) + 1

-----------------------------------------------------------------------------
(* InvoiceSerializer.validate: defaults *)

SERIES_DEFAULT == <<"I", "N", "V">>

\* attrs.get('series', 'INV')
SeriesOf(attrs) == IF attrs.series.k = "str" THEN attrs.series.s ELSE SERIES_DEFAULT

\* the nested InvoiceLineSerializer has validated every line
validated_lines(lines) ==
    [i \in 1..Len(lines) |-> InvoiceLineSerializerValidate(lines[i])]

default_date(attrs) ==
    IF Falsy(attrs.date) THEN [attrs EXCEPT !.date = Date(0)] ELSE attrs

auto_number(attrs, d) ==
    IF Falsy(attrs.number)
    THEN [attrs EXCEPT !.number =
             Txt(SeriesOf(attrs) \o Format04d(next_num(d, SeriesOf(attrs))))]
    ELSE attrs

credit_days(client) ==
    IF client.k = "client" /\ client.credit_terms_days # 0
    THEN client.credit_terms_days ELSE 30

default_due_date(attrs) ==
    IF Falsy(attrs.due_date)
    THEN [attrs EXCEPT !.due_date = Date(attrs.date.d + credit_days(attrs.client))]
    ELSE attrs

default_place_of_supply(attrs, tenant) ==
    IF Falsy(attrs.place_of_supply)
    THEN [attrs EXCEPT !.place_of_supply =
             IF Falsy(tenant.state_code) THEN Txt(<<"2", "7">>) ELSE tenant.state_code]
    ELSE attrs

\* attrs as they reach _validate_gst_compliance
InvoiceSerializerValidate(data, d, tenant) ==
    default_place_of_supply(
      default_due_date(
        auto_number(
          default_date([data EXCEPT !.lines = validated_lines(@)]), d)), tenant)

-----------------------------------------------------------------------------
(* InvoiceSerializer._prepare_compliance_data *)

client_data(client) ==
    IF client.k = "client"
    THEN [k |-> "dict", name |-> client.name, client_type |-> client.client_type,
          gstin |-> client.gstin, state_code |-> client.state_code,
          billing_address |-> client.billing_address]
    ELSE [k |-> "dict", name |-> Txt(<<>>), client_type |-> "b2c",
          gstin |-> Txt(<<>>), state_code |-> Txt(<<>>),
          billing_address |-> EmptyClient.billing_address]

tenant_data(tenant) ==
    [k |-> "dict", gstin |-> Absent,
     aato_threshold |-> Num(tenant.aato_threshold),
     e_invoice_enabled |-> tenant.e_invoice_enabled]

\* the amounts and the line total are read-only fields of the line
\* serializer: they are never in line_data and .get(.., 0) gives 0
line_info(l) ==
    [description |-> l.description, hsn_sac |-> l.hsn_sac,
     quantity |-> Num(l.quantity), rate |-> Num(l.rate),
     discount_percent |-> Num(l.discount_percent),
     discount_amount |-> Num(l.discount_amount),
     taxable_value |-> Num(l.taxable_value),
     cgst_rate |-> Num(l.cgst_rate), sgst_rate |-> Num(l.sgst_rate),
     igst_rate |-> Num(l.igst_rate), cess_rate |-> Num(l.cess_rate),
     cgst_amount |-> Num(0), sgst_amount |-> Num(0),
     igst_amount |-> Num(0), cess_amount |-> Num(0),
     line_total |-> Num(0),
     is_service |-> l.has_item /\ l.item_is_service]

lines_data(lines) == [i \in 1..Len(lines) |-> line_info(lines[i])]

RECURSIVE sum_taxable_value(_, _)
sum_taxable_value(lines, n) ==
    IF n = 0 THEN 0 ELSE sum_taxable_value(lines, n - 1) + lines[n].taxable_value.n

RECURSIVE sum_tax_amounts(_, _)
sum_tax_amounts(lines, n) ==
    IF n = 0 THEN 0
    ELSE sum_tax_amounts(lines, n - 1)
         + lines[n].cgst_amount.n + lines[n].sgst_amount.n
         + lines[n].igst_amount.n + lines[n].cess_amount.n

\* grand_total is a read-only field of the serializer: attrs.get('grand_total', 0)
prepare_compliance_data(attrs, tenant) ==
    [number |-> attrs.number,
     date |-> attrs.date,
     client |-> client_data(attrs.client),
     tenant |-> tenant_data(tenant),
     place_of_supply |-> attrs.place_of_supply,
     taxable_amount |->
        Num(sum_taxable_value(lines_data(attrs.lines), Len(attrs.lines))),
     total_tax |->
        Num(sum_tax_amounts(lines_data(attrs.lines), Len(attrs.lines))),
     grand_total |-> Num(0),
     einvoice_details |-> FALSE,
     lines |-> lines_data(attrs.lines)]

\* if not is_valid: raise serializers.ValidationError
ComplianceRejects_never(r) == FALSE

ComplianceRejects(r) == ~r.is_valid

-----------------------------------------------------------------------------
(* InvoiceSerializer.create / update and Invoice.calculate_totals *)

\* one _create_invoice_line per line of the request
invoice_lines(lines, client, place_of_supply) ==
    [i \in 1..Len(lines) |->
        CreateInvoiceLine(lines[i], client.state_code.s, place_of_supply)]

RECURSIVE sum_line_total(_, _)
sum_line_total(lines, n) ==
    IF n = 0 THEN 0 ELSE sum_line_total(lines, n - 1) + lines[n].line_total

RECURSIVE sum_line_taxable(_, _)
sum_line_taxable(lines, n) ==
    IF n = 0 THEN 0 ELSE sum_line_taxable(lines, n - 1) + lines[n].taxable_value

RECURSIVE sum_line_tax(_, _)
sum_line_tax(lines, n) ==
    IF n = 0 THEN 0
    ELSE sum_line_tax(lines, n - 1)
         + lines[n].cgst_amount + lines[n].sgst_amount
         + lines[n].igst_amount + lines[n].cess_amount

calculate_totals(invoice) ==
    [invoice EXCEPT
        !.subtotal = sum_line_total(invoice.lines, Len(invoice.lines)),
        !.taxable_amount = sum_line_taxable(invoice.lines, Len(invoice.lines)),
        !.total_tax = sum_line_tax(invoice.lines, Len(invoice.lines)),
        !.grand_total = sum_line_taxable(invoice.lines, Len(invoice.lines))
                        + sum_line_tax(invoice.lines, Len(invoice.lines))
                        - invoice.discount_amount + invoice.round_off]

\* the invoice create() stores for validated attrs
create(attrs) ==
    calculate_totals(
      [series |-> TextOf(attrs.series),
       number |-> attrs.number.s,
       date |-> attrs.date,
       due_date |-> attrs.due_date,
       place_of_supply |-> attrs.place_of_supply.s,
       client |-> attrs.client,
       discount_amount |-> 0, round_off |-> 0,
       subtotal |-> 0, taxable_amount |-> 0, total_tax |-> 0, grand_total |-> 0,
       lines |-> invoice_lines(attrs.lines, attrs.client, attrs.place_of_supply.s)])

\* the fields of the instance that update() sets from validated attrs
updated_fields(instance, attrs) ==
    [instance EXCEPT
        !.series = IF attrs.series.k = "str" THEN attrs.series.s ELSE @,
        !.number = attrs.number.s,
        !.date = attrs.date,
        !.due_date = attrs.due_date,
        !.place_of_supply = attrs.place_of_supply.s,
        !.client = IF attrs.client.k = "client" THEN attrs.client ELSE @]

\* the lines of the instance are deleted and created anew
replaced_lines(invoice, lines) ==
    [invoice EXCEPT
        !.lines = invoice_lines(lines, invoice.client, invoice.place_of_supply)]

update(instance, attrs) ==
    calculate_totals(replaced_lines(updated_fields(instance, attrs), attrs.lines))

\* unique_together = ['tenant', 'series', 'number']
Conflicts(d, invoice, self) ==
    \E i \in 1..Len(d) :
        i # self /\ d[i].series = invoice.series /\ d[i].number = invoice.number

\* how is_valid(raise_exception=True) followed by save() ends
RequestOutcome(r, conflict, saved) ==
    IF r.outcome = "raised" THEN "server_error"
    ELSE IF ComplianceRejects(r) THEN "validation_error"
    ELSE IF conflict THEN "integrity_error"
    ELSE saved

-----------------------------------------------------------------------------
(* Requests to the serializer *)

\* a B2B client of Maharashtra with a well-formed GSTIN
ClientMH ==
    [k |-> "client", name |-> Txt(<<"C">>), client_type |-> "b2b",
     gstin |-> Txt(GSTIN_27), state_code |-> Txt(<<"2", "7">>),
     billing_address |-> FullAddress, credit_terms_days |-> 30]

\* a B2B client of Haryana
ClientHR ==
    [ClientMH EXCEPT !.gstin = Txt(GSTIN_06), !.state_code = Txt(<<"0", "6">>),
                     !.credit_terms_days = 45]

\* a B2B client whose GSTIN was left blank
ClientNoGstin == [ClientMH EXCEPT !.gstin = Txt(<<>>), !.credit_terms_days = 0]

RequestClients == {ClientMH, ClientHR, ClientNoGstin}

\* the tenant of request.user: company_details.get('state_code'),
\* aato_threshold, e_invoice_enabled
RequestTenants ==
    { [state_code |-> sc, aato_threshold |-> 5000000, e_invoice_enabled |-> FALSE] :
        sc \in {Txt(<<"2", "7">>), Absent} }

\* a line of the request for the service item of the catalog (GST 18%)
ItemLine(q, d) ==
    [description |-> Txt(<<"S">>),
     hsn_sac |-> Txt(<<"9", "9", "8", "3", "1", "4">>),
     quantity |-> q, rate |-> Rs(800),
     discount_percent |-> d, discount_amount |-> 0,
     cgst_rate |-> 0, sgst_rate |-> 0, igst_rate |-> 0, cess_rate |-> 0,
     has_item |-> TRUE, item_is_service |-> TRUE,
     item_gst |-> P(18), item_cess |-> 0,
     taxable_value |-> 0]

RequestLines ==
    { ItemLine(q, d) : q \in 1..MaxQty, d \in {0, P(10)} }
    \cup
    { [ItemLine(1, 0) EXCEPT !.cgst_rate = P(9), !.sgst_rate = P(9)],
      [ItemLine(1, 0) EXCEPT !.hsn_sac = Txt(<<>>), !.has_item = FALSE] }

\* (series, number) as a request may give them
SeriesAndNumber ==
    { <<Txt(SERIES_DEFAULT), Absent>>, <<Absent, Absent>>,
      <<Txt(SERIES_DEFAULT), Txt(<<"I", "N", "V", "0", "0", "0", "7">>)>> }

RequestData(sn, dt, pos, c, lines) ==
    [series |-> sn[1], number |-> sn[2], date |-> dt, due_date |-> Absent,
     place_of_supply |-> pos, client |-> c, lines |-> lines]

\* a create request names its client; a partial update, which is made on a
\* stored invoice, may leave it out
Request(method, tenant, data) ==
    [method |-> method, instance |-> IF method = "update" THEN 1 ELSE 0,
     tenant |-> tenant, data |-> data]

\* an invoice stored earlier under the given number
StoredInvoice(number) ==
    create([series |-> Txt(SERIES_DEFAULT), number |-> Txt(number),
            date |-> Date(-1), due_date |-> Date(29),
            place_of_supply |-> Txt(<<"2", "7">>), client |-> ClientMH,
            lines |-> <<InvoiceLineSerializerValidate(ItemLine(1, 0))>>])

InitialDBs ==
    { <<>>,
      <<StoredInvoice(<<"I", "N", "V", "0", "0", "0", "7">>)>>,
      <<StoredInvoice(<<"I", "N", "V", "-", "2">>)>> }

-----------------------------------------------------------------------------
(* A request handled by InvoiceSerializer *)

RequestInit ==
    /\ pc = "request_received"
    /\ db \in InitialDBs
    /\ \E method \in {"create", "update"}, t \in RequestTenants,
          sn \in SeriesAndNumber, dt \in {Absent, Date(0)},
          pos \in {Absent, Txt(<<"2", "7">>)},
          c \in RequestClients \cup {Absent},
          lines \in SeqsUpTo(RequestLines) :
            /\ method = "create" => c.k = "client"
            /\ method = "update" => db # <<>>
            /\ req = Request(method, t, RequestData(sn, dt, pos, c, lines))
    /\ resp = "none"
    /\ util = NoCall
    /\ inv = NoInvoice /\ res = NoResult
    /\ ld0 = NoLine /\ ld = NoLine /\ ctx = NoLine /\ line = NoLine /\ mline = NoLine
    /\ heap = <<>> /\ engines = <<>> /\ calls = <<>>

\* POST: is_valid() runs validate(); save() runs create()
CreateRequest ==
    /\ pc = "request_received" /\ req.method = "create"
    /\ LET attrs == InvoiceSerializerValidate(req.data, db, req.tenant)
       IN /\ inv' = prepare_compliance_data(attrs, req.tenant)
          /\ res' = validate_invoice_rule_46(inv')
          /\ resp' = RequestOutcome(res', Conflicts(db, create(attrs), 0), "created")
          /\ db' = IF resp' = "created" THEN Append(db, create(attrs)) ELSE db
    /\ pc' = "request_done"
    /\ UNCHANGED <<req, lineVars, utilVars, threadVars>>

\* PUT / PATCH on a stored invoice: is_valid() runs validate(); save() runs update()
UpdateRequest ==
    /\ pc = "request_received" /\ req.method = "update"
    /\ LET attrs == InvoiceSerializerValidate(req.data, db, req.tenant)
       IN /\ inv' = prepare_compliance_data(attrs, req.tenant)
          /\ res' = validate_invoice_rule_46(inv')
          /\ resp' = RequestOutcome(res',
                        Conflicts(db, update(db[req.instance], attrs), req.instance),
                        "updated")
          /\ db' = IF resp' = "updated"
                   THEN [db EXCEPT ![req.instance] = update(@, attrs)]
                   ELSE db
    /\ pc' = "request_done"
    /\ UNCHANGED <<req, lineVars, utilVars, threadVars>>

RequestNext == CreateRequest \/ UpdateRequest

SpecRequest == RequestInit /\ [][RequestNext]_vars

-----------------------------------------------------------------------------
(* Claims about requests handled by the serializer *)

RequestDone == pc = "request_done"

\* a create request for a B2B client with valid details whose lines give
\* item, description, HSN/SAC, quantity, rate and discount and nothing else
ValidB2BCreate ==
    /\ req.method = "create"
    /\ req.data.client \in {ClientMH, ClientHR}
    /\ Len(req.data.lines) >= 1
    /\ \A i \in 1..Len(req.data.lines) :
          req.data.lines[i] \in { ItemLine(q, d) : q \in 1..MaxQty, d \in {0, P(10)} }

\* the state of the buyer and the place of supply the stored invoice has
StoredIntra(invoice) == invoice.client.state_code.s = invoice.place_of_supply

\* C9 (as stated): a create request for a B2B client with valid details passes
\* the compliance validation and ends with the invoice stored, each line's
\* amounts split by jurisdiction from the item's GST rate.
C9_ValidCreatePersisted ==
    (RequestDone /\ ValidB2BCreate) =>
        /\ res.is_valid
        /\ resp = "created"
        /\ db # <<>>
        /\ Len(db[Len(db)].lines) = Len(req.data.lines)
        /\ \A i \in 1..Len(req.data.lines) :
              LET l == db[Len(db)].lines[i]
                  tax == PercentOf(l.taxable_value, req.data.lines[i].item_gst)
              IN IF StoredIntra(db[Len(db)])
                 THEN l.cgst_amount + l.sgst_amount = tax /\ l.igst_amount = 0
                 ELSE l.igst_amount = tax /\ l.cgst_amount = 0 /\ l.sgst_amount = 0

\* C10: a request changes the stored invoices only if the compliance
\* validation of its own data returned is_valid = True with no error; when
\* the validation reports an error the request ends in a validation error
\* and the stored invoices, their lines and totals stay as they were.
C10_WriteOnlyIfValid ==
    [][ /\ db' # db =>
            /\ inv' = prepare_compliance_data(
                         InvoiceSerializerValidate(req.data, db, req.tenant), req.tenant)
            /\ res'.outcome = "returned" /\ res'.is_valid /\ res'.errors = <<>>
        /\ (pc' = "request_done" /\ Len(res'.errors) >= 1) =>
            /\ ~res'.is_valid
            /\ resp' = "validation_error"
            /\ db' = db ]_vars

C10_Witness ==
    /\ RequestDone
    /\ req.method = "update"
    /\ Len(res.errors) >= 1
    /\ resp = "validation_error"
    /\ db = <<StoredInvoice(<<"I", "N", "V", "0", "0", "0", "7">>)>>

-----------------------------------------------------------------------------
(* Claims about whole invoices handed to validate_invoice_rule_46 *)

\* the state-code table as the specification gives it: the codes 01 to 38
StateCodeTable == { <<DigitChar(n \div 10), DigitChar(n % 10)>> : n \in 1..38 }

\* 2 digits, 5 capitals, 4 digits, 1 capital, 1 of [1-9A-Z], Z, 1 of [0-9A-Z]
GstinForm(s) ==
    /\ Len(s) = 15
    /\ s[1] \in Digit /\ s[2] \in Digit
    /\ \A i \in 3..7 : s[i] \in Upper
    /\ \A i \in 8..11 : s[i] \in Digit
    /\ s[12] \in Upper
    /\ s[13] \in (Digit \cup Upper) \ {"0"}
    /\ s[14] = "Z"
    /\ s[15] \in Digit \cup Upper

ValidGstinText(v) ==
    v.k = "str" /\ GstinForm(v.s) /\ SubSeq(v.s, 1, 2) \in StateCodeTable

\* every mandatory field is supplied, with amounts above zero
SuppliesMandatory(d) ==
    /\ d.number.k = "str" /\ d.number.s # <<>>
    /\ d.date.k \in {"date", "datestr"}
    /\ d.client.k = "dict" /\ d.client.name.k = "str" /\ d.client.name.s # <<>>
    /\ d.place_of_supply.k = "str" /\ d.place_of_supply.s # <<>>
    /\ \A v \in {d.taxable_amount, d.total_tax, d.grand_total} : v.k = "num" /\ v.n > 0
    /\ Len(d.lines) >= 1
    /\ \A i \in 1..Len(d.lines) :
          /\ d.lines[i].description.k = "str" /\ d.lines[i].description.s # <<>>
          /\ d.lines[i].hsn_sac.k = "str" /\ d.lines[i].hsn_sac.s # <<>>
          /\ d.lines[i].taxable_value.n > 0

\* seller and buyer GSTIN valid, place of supply known and the buyer's state
IntraStateB2B(d) ==
    /\ d.client.client_type = "b2b"
    /\ ValidGstinText(d.client.gstin)
    /\ d.tenant.k = "dict" /\ ValidGstinText(d.tenant.gstin)
    /\ d.place_of_supply.s \in StateCodeTable
    /\ d.client.state_code = d.place_of_supply

\* a 6-digit SAC on a service line, a 4, 6 or 8 digit HSN on a goods line
WellFormedCode(l) ==
    /\ \A i \in 1..Len(l.hsn_sac.s) : l.hsn_sac.s[i] \in Digit
    /\ IF l.is_service THEN Len(l.hsn_sac.s) = 6 ELSE Len(l.hsn_sac.s) \in {4, 6, 8}

\* a non-zero catalog rate split equally into CGST and SGST, IGST 0
EqualSplit(l) ==
    /\ l.cgst_rate.n = l.sgst_rate.n /\ l.igst_rate.n = 0
    /\ l.cgst_rate.n + l.sgst_rate.n \in {2, P(3), P(5), P(12), P(18), P(28)}

\* the amount is taxable_value * rate / 100
AmountIs(l, amount, r) == 800 * amount.n = l.taxable_value.n * r.n

\* amounts and totals follow from quantity, rate and rates
ConsistentAmounts(d) ==
    /\ \A i \in 1..Len(d.lines) :
          /\ TaxableGap(d.lines[i]) = 0 /\ LineTotalGap(d.lines[i]) = 0
          /\ AmountIs(d.lines[i], d.lines[i].cgst_amount, d.lines[i].cgst_rate)
          /\ AmountIs(d.lines[i], d.lines[i].sgst_amount, d.lines[i].sgst_rate)
          /\ AmountIs(d.lines[i], d.lines[i].igst_amount, d.lines[i].igst_rate)
          /\ AmountIs(d.lines[i], d.lines[i].cess_amount, d.lines[i].cess_rate)
    /\ SumTaxable(d.lines, Len(d.lines)) = d.taxable_amount.n
    /\ SumTax(d.lines, Len(d.lines)) = d.total_tax.n

\* what the claim asks of the invoice
C11_Stated(d) ==
    /\ WellTyped(d)
    /\ SuppliesMandatory(d)
    /\ IntraStateB2B(d)
    /\ \A i \in 1..Len(d.lines) : WellFormedCode(d.lines[i]) /\ EqualSplit(d.lines[i])
    /\ ConsistentAmounts(d)

\* what validate asks besides: a well-formed number, a readable date that is
\* not in the future, a complete billing address, catalog CESS rates and
\* 6-digit HSN codes on goods of a seller above 5 crore
C11_Besides(d) ==
    /\ Len(d.number.s) <= 16
    /\ \A i \in 1..Len(d.number.s) :
          d.number.s[i] \in Upper \cup Lower \cup Digit \cup {"-", "/", "\\"}
    /\ IF d.date.k = "date" THEN d.date.d <= 0 ELSE d.date.ok /\ d.date.d <= 0
    /\ \A f \in {"address_line1", "city", "state", "pincode"} :
          AddressHas(d.client.billing_address, f)
    /\ \A i \in 1..Len(d.lines) :
          /\ d.lines[i].cess_rate.n \in VALID_CESS_RATES
          /\ (~d.lines[i].is_service /\ d.tenant.aato_threshold.n > 50000000)
                => Len(d.lines[i].hsn_sac.s) >= 6

\* C11 (as stated): an intra-state B2B invoice with every mandatory field,
\* valid GSTINs, a known place of supply equal to the buyer's state,
\* well-formed codes, an equally split catalog rate and consistent amounts is
\* reported valid with no error.
C11_Original ==
    (Returned /\ C11_Stated(inv)) => (res.is_valid /\ res.errors = <<>>)

\* C11 (amended): such an invoice is reported valid with no error when its
\* number, date, billing address, CESS rates and HSN lengths also pass.
C11_ValidIntraState ==
    (pc # "engine_ready" /\ C11_Stated(inv) /\ C11_Besides(inv)) =>
        (res.outcome = "returned" /\ res.is_valid /\ res.errors = <<>>)

C11_Witness ==
    /\ Returned
    /\ C11_Stated(inv) /\ C11_Besides(inv)
    /\ Len(inv.lines) = 2
    /\ inv.lines[1].cgst_amount.n = Rs(72) /\ inv.lines[1].igst_amount.n = 0
    /\ res.is_valid /\ res.errors = <<>>

\* validate reported field f as a missing mandatory field
MissingFieldError(f) ==
    \E i \in 1..Len(res.errors) :
        /\ res.errors[i].code = "Rule-46 violation: Missing mandatory field"
        /\ res.errors[i].arg = f

\* a text or date field is in the invoice and not blank
Supplied(v) == v.k # "absent" /\ ~(v.k = "str" /\ v.s = <<>>)

\* C12 (as stated): each of the seven mandatory fields is reported missing
\* exactly when it is not in the invoice, a numeric 0 counting as present;
\* a missing buyer name, a B2B buyer without GSTIN, an invoice without lines
\* and, per line, a missing description, a missing hsn_sac or a taxable
\* value <= 0 are reported too.
C12_MandatoryExactly ==
    Returned =>
        /\ MissingFieldError("number") <=> ~Supplied(inv.number)
        /\ MissingFieldError("date") <=> ~Supplied(inv.date)
        /\ MissingFieldError("client") <=> inv.client.k # "dict"
        /\ MissingFieldError("place_of_supply") <=> ~Supplied(inv.place_of_supply)
        /\ MissingFieldError("taxable_amount") <=> inv.taxable_amount.k = "absent"
        /\ MissingFieldError("total_tax") <=> inv.total_tax.k = "absent"
        /\ MissingFieldError("grand_total") <=> inv.grand_total.k = "absent"
        /\ (inv.client.k = "dict" /\ ~Supplied(inv.client.name))
              => HasError("Rule-46 violation: Client name is mandatory")
        /\ (/\ inv.client.k = "dict" /\ inv.client.client_type = "b2b"
            /\ ~Supplied(inv.client.gstin))
              => HasError("Rule-46 violation: GSTIN required for B2B clients")
        /\ inv.lines = <<>>
              <=> HasError("Rule-46 violation: Invoice must have at least one line item")
        /\ \A n \in 1..Len(inv.lines) :
              /\ HasLineError("Rule-46 violation: Line missing description", n)
                    <=> ~Supplied(inv.lines[n].description)
              /\ HasLineError("Rule-46 violation: Line missing HSN/SAC code", n)
                    <=> ~Supplied(inv.lines[n].hsn_sac)
              /\ HasLineError("Rule-46 violation: Line taxable value must be positive", n)
                    <=> Dec(inv.lines[n].taxable_value) <= 0

-----------------------------------------------------------------------------
(* validate on invoices that differ in the rates of their lines *)

\* rates a line may carry, in eighths of a percent: -1, 0, 0.125, 9, 9.5
HalfRates == {0 - P(1), 0, 1, P(9), 76}

\* -1, 0, 18, 28
FullRates == {0 - P(1), 0, P(18), P(28)}

\* 0, 1 and 7 percent
CessRates == {0, P(1), P(7)}

RateLine(c, s, i, x) ==
    [BaseLine EXCEPT !.cgst_rate = Num(c), !.sgst_rate = Num(s),
                     !.igst_rate = Num(i), !.cess_rate = Num(x)]

\* lines for invoices of several lines
SampleRateLines ==
    { RateLine(P(9), P(9), 0, 0), RateLine(0, 0, P(18), 0),
      RateLine(P(9), 0, 0, P(7)), RateLine(76, 76, 0 - P(1), 0),
      RateLine(0, 0, 0, P(1)), RateLine(P(9), P(9), P(18), P(7)) }

\* the buyer in the state of the place of supply, or in another state
RateClients ==
    { ClientB2B,
      [ClientB2B EXCEPT !.gstin = Txt(GSTIN_06), !.state_code = Txt(<<"0", "6">>)] }

RatesInit ==
    /\ pc = "engine_ready"
    /\ \E client \in RateClients :
          \/ \E c \in HalfRates, s \in HalfRates, i \in FullRates, x \in CessRates :
                inv = [BaseInvoice(<<RateLine(c, s, i, x)>>, 0, 0) EXCEPT !.client = client]
          \/ \E lines \in SeqsUpTo(SampleRateLines) :
                inv = [BaseInvoice(lines, 0, 0) EXCEPT !.client = client]
    /\ res = NoResult
    /\ ld0 = NoLine /\ ld = NoLine /\ ctx = NoLine /\ line = NoLine /\ mline = NoLine
    /\ req = NoRequest /\ db = <<>> /\ resp = "none"
    /\ util = NoCall
    /\ heap = <<>> /\ engines = <<>> /\ calls = <<>>

SpecRates == RatesInit /\ [][EngineNext]_vars

-----------------------------------------------------------------------------
(* Claims about the rates of a line *)

IntraSupply == TextOf(ClientOf(inv).state_code) = TextOf(inv.place_of_supply)

JurisdictionError(n) ==
    \/ HasLineError("Line: IGST not applicable for intra-state supply", n)
    \/ HasLineError("Line: CGST and SGST rates must be equal for intra-state supply", n)
    \/ HasLineError("Line: CGST/SGST not applicable for inter-state supply", n)
    \/ HasLineError("Line: IGST required for inter-state supply", n)

CombinedRateOf(l) == l.cgst_rate.n + l.sgst_rate.n + l.igst_rate.n

\* C13 (as stated): whatever numeric rates a line carries, it is free of
\* jurisdiction errors only if, intra-state, igst_rate = 0 and cgst_rate =
\* sgst_rate and, inter-state, cgst_rate = sgst_rate = 0 and igst_rate > 0
\* whenever the combined rate is not zero.
C13_JurisdictionOnlyIf ==
    Returned =>
        \A n \in 1..Len(inv.lines) :
            ~JurisdictionError(n) =>
                LET l == inv.lines[n]
                IN IF IntraSupply
                   THEN l.igst_rate.n = 0 /\ l.cgst_rate.n = l.sgst_rate.n
                   ELSE /\ l.cgst_rate.n = 0 /\ l.sgst_rate.n = 0
                        /\ CombinedRateOf(l) # 0 => l.igst_rate.n > 0

\* how many errors with this text name line n
LineErrorCount(code, n) ==
    Cardinality({ i \in 1..Len(res.errors) :
                    res.errors[i].code = code /\ res.errors[i].line = n })

\* {0, 0.25, 3, 5, 12, 18, 28} percent, in eighths of a percent
GstCatalog == {0, 2, 24, 40, 96, 144, 224}

\* {0, 1, 2, 3, 4, 5, 10, 15, 20, 25, 50, 100, 200, 290, 400} percent
CessCatalog ==
    { 8 * c : c \in {0, 1, 2, 3, 4, 5, 10, 15, 20, 25, 50, 100, 200, 290, 400} }

\* C14: validate returns, for each line i, one invalid-GST-rate error naming
\* line i exactly when cgst_rate + sgst_rate + igst_rate is outside
\* {0, 0.25, 3, 5, 12, 18, 28}, and one invalid-CESS-rate error naming line i
\* exactly when cess_rate is outside the CESS catalog; no line's error stands
\* for another's.
C14_RateCatalogs ==
    (pc # "engine_ready") =>
        /\ res.outcome = "returned"
        /\ \A n \in 1..Len(inv.lines) :
              /\ LineErrorCount("Line: Invalid GST rate", n) =
                    IF CombinedRateOf(inv.lines[n]) \in GstCatalog THEN 0 ELSE 1
              /\ LineErrorCount("Line: Invalid CESS rate", n) =
                    IF inv.lines[n].cess_rate.n \in CessCatalog THEN 0 ELSE 1
        /\ \A i \in 1..Len(res.errors) :
              res.errors[i].code \in {"Line: Invalid GST rate", "Line: Invalid CESS rate"}
                 => res.errors[i].line \in 1..Len(inv.lines)

C14_Witness ==
    /\ Returned
    /\ Len(inv.lines) = 2
    /\ CombinedRateOf(inv.lines[1]) = P(18)
    /\ CombinedRateOf(inv.lines[2]) = P(9)
    /\ LineErrorCount("Line: Invalid GST rate", 1) = 0
    /\ LineErrorCount("Line: Invalid CESS rate", 1) = 0
    /\ LineErrorCount("Line: Invalid GST rate", 2) = 1
    /\ LineErrorCount("Line: Invalid CESS rate", 2) = 1

-----------------------------------------------------------------------------
(* validate_gst_number, and validate on invoices that differ in their GSTINs *)

validate_gst_number(gstin) ==
    IF Falsy(gstin) \/ Len(TextOf(gstin)) # 15 THEN FALSE
    ELSE IF ~gstin_pattern(TextOf(gstin)) THEN FALSE
    ELSE InStateCodes(SubSeq(TextOf(gstin), 1, 2))

\* '07AABCU9603R1ZX'
GSTIN_07 == <<"0", "7", "A", "A", "B", "C", "U", "9", "6", "0", "3", "R", "1", "Z", "X">>

\* '123456789012345'
GSTIN_DIGITS == <<"1", "2", "3", "4", "5", "6", "7", "8", "9", "0", "1", "2", "3", "4", "5">>

\* the GSTINs of test_gstin_validation, and others one character away
SampleGstins ==
    { Txt(GSTIN_27), Txt(GSTIN_07), Txt(GSTIN_DIGITS),
      Txt(SubSeq(GSTIN_27, 1, 14)),
      Txt(<<"9", "9">> \o SubSeq(GSTIN_27, 3, 15)),
      Txt(<<"0", "0">> \o SubSeq(GSTIN_27, 3, 15)),
      Txt(<<"3", "8">> \o SubSeq(GSTIN_27, 3, 15)),
      Txt(<<"3", "9">> \o SubSeq(GSTIN_27, 3, 15)),
      Txt(GSTIN_27 \o <<"\n">>),
      Txt(SubSeq(GSTIN_27, 1, 14) \o <<"\n">>),
      Txt(GSTIN_27 \o <<"5">>),
      Txt(SubSeq(GSTIN_27, 1, 2) \o <<"a">> \o SubSeq(GSTIN_27, 4, 15)),
      Txt(SubSeq(GSTIN_27, 1, 12) \o <<"0", "Z", "5">>),
      Txt(SubSeq(GSTIN_27, 1, 13) \o <<"Y", "5">>),
      Txt(GSTIN_MALFORMED), Txt(<<>>), Absent }

GstinInit ==
    /\ pc = "engine_ready"
    /\ \E seller \in SampleGstins, buyer \in SampleGstins :
          inv = [BaseInvoice(<<BaseLine>>, 0, 0) EXCEPT
                    !.tenant.gstin = seller, !.client.gstin = buyer]
    /\ res = NoResult
    /\ ld0 = NoLine /\ ld = NoLine /\ ctx = NoLine /\ line = NoLine /\ mline = NoLine
    /\ req = NoRequest /\ db = <<>> /\ resp = "none"
    /\ util = NoCall
    /\ heap = <<>> /\ engines = <<>> /\ calls = <<>>

GstNumberCall ==
    /\ util = NoCall
    /\ \E gstin \in SampleGstins :
          util' = [fn |-> "validate_gst_number", arg |-> gstin,
                   result |-> validate_gst_number(gstin)]
    /\ UNCHANGED <<pc, lineVars, engineVars, requestVars, threadVars>>

GstinNext == ValidateCall \/ GstNumberCall

SpecGstin == GstinInit /\ [][GstinNext]_vars

-----------------------------------------------------------------------------
(* Claims about GSTINs *)

\* validate reported the GSTIN of this party ('Supplier' or 'Buyer')
GstinErrorFor(entity_name) ==
    \E i \in 1..Len(res.errors) :
        /\ res.errors[i].code \in {"Invalid GSTIN format for",
                                   "Invalid state code in GSTIN for"}
        /\ res.errors[i].arg = entity_name

\* validate_gst_number gave True exactly for the 15-character texts of the
\* stated form whose first two characters are a state code
GstNumberAsStated ==
    (util.fn = "validate_gst_number") => (util.result = ValidGstinText(util.arg))

\* validate reports a supplied GSTIN exactly when validate_gst_number rejects it
PipelineAgrees ==
    Returned =>
        /\ GstinErrorFor("Supplier") <=>
              (~Falsy(inv.tenant.gstin) /\ ~validate_gst_number(inv.tenant.gstin))
        /\ GstinErrorFor("Buyer") <=>
              (~Falsy(inv.client.gstin) /\ ~validate_gst_number(inv.client.gstin))

\* C15: validate_gst_number(g) is True exactly when g is 15 characters of the
\* form 2 digits, 5 capitals, 4 digits, 1 capital, 1 of [1-9A-Z], Z, 1 of
\* [0-9A-Z] with a state code 01..38 in front, and the seller/buyer GSTIN check
\* of validate reports an error for exactly the non-empty GSTINs that
\* validate_gst_number rejects.
C15_GstinValidators == GstNumberAsStated /\ PipelineAgrees

-----------------------------------------------------------------------------
(* validate on invoices that differ in the HSN/SAC codes of their lines *)

\* codes of 3 to 8 characters: digits, a letter, a final newline
SampleCodes ==
    { <<"9", "9", "8", "3", "1", "4">>, <<"9", "9", "8", "3", "1">>,
      <<"1", "0", "0", "1">>, <<"1", "0", "0", "1", "0", "0">>,
      <<"1", "0", "0", "1", "0", "0", "1", "1">>, <<"1", "0", "0", "1", "1">>,
      <<"9", "9", "8", "3", "1", "4", "5">>, <<"9", "9", "8", "3", "1", "A">>,
      <<"9", "9", "8", "3", "1", "4", "\n">>, <<"1", "0", "0", "1", "\n">>,
      <<"1", "0", "0", "\n">>, <<>> }

CodeLine(code, is_service) ==
    [BaseLine EXCEPT !.hsn_sac = Txt(code), !.is_service = is_service]

SampleCodeLines ==
    { CodeLine(<<"9", "9", "8", "3", "1", "4">>, TRUE),
      CodeLine(<<"1", "0", "0", "1">>, TRUE),
      CodeLine(<<"1", "0", "0", "1">>, FALSE),
      CodeLine(<<"1", "0", "0", "1", "1">>, FALSE),
      CodeLine(<<>>, FALSE) }

\* the seller's turnover: 50 lakh, 5 crore, and one rupee above 5 crore
Turnovers == {5000000, 50000000, 50000001}

CodesInit ==
    /\ pc = "engine_ready"
    /\ \E aato \in Turnovers :
          \/ \E code \in SampleCodes, is_service \in BOOLEAN :
                inv = [BaseInvoice(<<CodeLine(code, is_service)>>, 0, 0) EXCEPT
                          !.tenant.aato_threshold = Num(aato)]
          \/ \E lines \in SeqsUpTo(SampleCodeLines) :
                inv = [BaseInvoice(lines, 0, 0) EXCEPT
                          !.tenant.aato_threshold = Num(aato)]
    /\ res = NoResult
    /\ ld0 = NoLine /\ ld = NoLine /\ ctx = NoLine /\ line = NoLine /\ mline = NoLine
    /\ req = NoRequest /\ db = <<>> /\ resp = "none"
    /\ util = NoCall
    /\ heap = <<>> /\ engines = <<>> /\ calls = <<>>

SpecCodes == CodesInit /\ [][EngineNext]_vars

-----------------------------------------------------------------------------
(* Claims about the HSN/SAC code of a line *)

\* a text of digits only whose length is one of lens
DigitsOfLength(s, lens) == Len(s) \in lens /\ \A i \in 1..Len(s) : s[i] \in Digit

SixDigitError == "Line: 6-digit HSN mandatory for turnover > 5 crores"

CodeErrors ==
    { "Line: HSN/SAC code is mandatory",
      "Line: Invalid SAC code format. Must be 6 digits",
      "Line: Invalid HSN code format. Must be 4, 6, or 8 digits",
      SixDigitError }

\* validate reported the code of line n
CodeErrorAt(n) == \E code \in CodeErrors : HasLineError(code, n)

\* the stated rule for the code of a line
CodeAsStated(l, aato) ==
    IF l.is_service
    THEN DigitsOfLength(l.hsn_sac.s, {6})
    ELSE /\ DigitsOfLength(l.hsn_sac.s, {4, 6, 8})
         /\ aato > 50000000 => Len(l.hsn_sac.s) >= 6

\* C16: a line with a non-empty code has no HSN/SAC error exactly when, for a
\* service, the code is exactly 6 digits and, for goods, the code is 4, 6 or 8
\* digits with at least 6 when the seller's aato_threshold is above
\* 50,000,000; the 6-digit rule is applied to no service line and to no line
\* when aato_threshold <= 50,000,000; every such error names its line.
C16_CodeRules ==
    Returned =>
        /\ \A n \in 1..Len(inv.lines) :
              /\ inv.lines[n].hsn_sac.s # <<>> =>
                    (~CodeErrorAt(n) <=>
                        CodeAsStated(inv.lines[n], inv.tenant.aato_threshold.n))
              /\ HasLineError(SixDigitError, n) =>
                    /\ ~inv.lines[n].is_service
                    /\ inv.tenant.aato_threshold.n > 50000000
        /\ \A i \in 1..Len(res.errors) :
              res.errors[i].code \in CodeErrors =>
                 res.errors[i].line \in 1..Len(inv.lines)

-----------------------------------------------------------------------------
(* validate on invoices that differ in their number and date *)

INV001 == <<"I", "N", "V", "0", "0", "1">>

\* numbers of 6 to 18 characters, with and without characters outside
\* [A-Za-z0-9\-\/\\]
SampleNumbers ==
    { INV001,
      <<"I", "N", "V", "-", "2", "0", "2", "4", "/", "0", "0", "1", "\\", "a">>,
      INV001 \o <<"-", "2", "0", "2", "4", "-", "0", "0", "0", "1">>,
      INV001 \o <<"-", "2", "0", "2", "4", "-", "0", "0", "0", "0", "1">>,
      INV001 \o <<"-", "2", "0", "2", "4", " ", "0", "0", "0", "0", "0", "1">>,
      <<"I", "N", "V", " ", "0", "0", "1">>,
      <<"I", "N", "V", "#", "0", "0", "1">>,
      INV001 \o <<"\n">>,
      <<>> }

\* days from today to the invoice date
SampleDays == {2, 1, 0, 0 - 1, 0 - 729, 0 - 730, 0 - 731, 0 - 732}

SampleDates ==
    { Date(d) : d \in SampleDays } \cup { DateStr(TRUE, d) : d \in SampleDays }
        \cup { DateStr(FALSE, 0), Absent }

DetailsInit ==
    /\ pc = "engine_ready"
    /\ \E number \in SampleNumbers, invoice_date \in SampleDates :
          inv = [BaseInvoice(<<BaseLine>>, 0, 0) EXCEPT
                    !.number = Txt(number), !.date = invoice_date]
    /\ res = NoResult
    /\ ld0 = NoLine /\ ld = NoLine /\ ctx = NoLine /\ line = NoLine /\ mline = NoLine
    /\ req = NoRequest /\ db = <<>> /\ resp = "none"
    /\ util = NoCall
    /\ heap = <<>> /\ engines = <<>> /\ calls = <<>>

SpecDetails == DetailsInit /\ [][EngineNext]_vars

-----------------------------------------------------------------------------
(* Claims about the number and the date of an invoice *)

HasWarning(code) == \E i \in 1..Len(res.warnings) : res.warnings[i] = code

NumberCharacters == Upper \cup Lower \cup Digit \cup {"-", "/", "\\"}

\* the date of the invoice is one the engine can read
ReadableDate == inv.date.k = "date" \/ (inv.date.k = "datestr" /\ inv.date.ok)

DateErrors == {"Invoice date cannot be in future", "Invalid invoice date format"}

OldDateWarning == HasWarning("Invoice date is older than 2 years")

\* the number part of C17
NumberAsStated ==
    (Returned /\ inv.number.s # <<>>) =>
        /\ Len(inv.number.s) > 16 =>
              HasError("Invoice number exceeds 16 character limit")
        /\ (\E i \in 1..Len(inv.number.s) : inv.number.s[i] \notin NumberCharacters) =>
              HasError("Invoice number contains invalid characters")

\* the date part of C17
DateAsStated ==
    (Returned /\ ReadableDate) =>
        /\ inv.date.d > 0 =>
              HasError("Invoice date cannot be in future") /\ ~res.is_valid
        /\ inv.date.d < 0 - 730 =>
              OldDateWarning /\ \A e \in DateErrors : ~HasError(e)
        /\ inv.date.d \in {0, 0 - 730} =>
              ~OldDateWarning /\ \A e \in DateErrors : ~HasError(e)

\* C17: validate reports an error for a non-empty number of more than 16
\* characters and an error for one that holds a character other than letters,
\* digits, '-', '/' and backslash; a date after today gives an error, a date
\* more than 730 days back only a warning, today and 730 days back neither.
C17_NumberAndDate == NumberAsStated /\ DateAsStated

-----------------------------------------------------------------------------
(* validate on invoices that differ in what is known of the buyer *)

BuyerInit ==
    /\ pc = "engine_ready"
    /\ \E client_type \in {"b2b", "b2c"},
          gstin \in {Txt(GSTIN_27), Txt(<<>>), Absent},
          state_code \in {Txt(<<"2", "7">>), Txt(<<>>), Absent},
          billing_address \in [{"address_line1", "city", "state", "pincode"} -> BOOLEAN] :
            inv = [BaseInvoice(<<BaseLine>>, 0, 0) EXCEPT
                      !.client.client_type = client_type,
                      !.client.gstin = gstin,
                      !.client.state_code = state_code,
                      !.client.billing_address = billing_address]
    /\ res = NoResult
    /\ ld0 = NoLine /\ ld = NoLine /\ ctx = NoLine /\ line = NoLine /\ mline = NoLine
    /\ req = NoRequest /\ db = <<>> /\ resp = "none"
    /\ util = NoCall
    /\ heap = <<>> /\ engines = <<>> /\ calls = <<>>

SpecBuyer == BuyerInit /\ [][EngineNext]_vars

-----------------------------------------------------------------------------
(* Claims about B2B buyers *)

AddressError == "B2B requirement: Client field is mandatory"

\* how many errors name this billing-address field
AddressErrorCount(f) ==
    Cardinality({ i \in 1..Len(res.errors) :
                    res.errors[i].code = AddressError /\ res.errors[i].arg = f })

B2BErrors ==
    { "Rule-46 violation: GSTIN required for B2B clients",
      "GSTIN is mandatory for B2B transactions",
      AddressError,
      "B2B requirement: Client state code is mandatory" }

\* C18: for a b2b buyer validate reports a missing GSTIN, one error for each
\* missing field among address_line1, city, state and pincode of the billing
\* address, and a missing state_code; for a buyer that is not b2b it reports
\* none of these errors.
C18_B2BRequirements ==
    Returned =>
        IF inv.client.client_type = "b2b"
        THEN /\ Falsy(inv.client.gstin) <=>
                   HasError("GSTIN is mandatory for B2B transactions")
             /\ \A f \in DOMAIN inv.client.billing_address :
                   AddressErrorCount(f) =
                      IF inv.client.billing_address[f] THEN 0 ELSE 1
             /\ Falsy(inv.client.state_code) <=>
                   HasError("B2B requirement: Client state code is mandatory")
        ELSE \A e \in B2BErrors : ~HasError(e)

\* a B2C invoice without GSTIN and without billing address that is valid
C18_Witness ==
    /\ Returned
    /\ inv.client.client_type = "b2c"
    /\ Falsy(inv.client.gstin)
    /\ \A f \in DOMAIN inv.client.billing_address : ~inv.client.billing_address[f]
    /\ res.is_valid /\ res.errors = <<>>

-----------------------------------------------------------------------------
(* validate on invoices that differ in their grand total *)

\* grand totals in paise around Rs 50,000 and Rs 200,000, and the Rs 295,000
\* of test_compliance_report
SampleTotals ==
    { Rs(944), Rs(50000) - 1, Rs(50000), Rs(50000) + 1,
      Rs(200000) - 1, Rs(200000), Rs(200000) + 1, Rs(295000) }

TotalsInit ==
    /\ pc = "engine_ready"
    /\ \E grand_total \in SampleTotals, e_invoice_enabled \in BOOLEAN,
          einvoice_details \in BOOLEAN, days \in {1, 0, 0 - 731} :
            inv = [BaseInvoice(<<BaseLine>>, 0, 0) EXCEPT
                      !.grand_total = Num(grand_total),
                      !.tenant.e_invoice_enabled = e_invoice_enabled,
                      !.einvoice_details = einvoice_details,
                      !.date = Date(days)]
    /\ res = NoResult
    /\ ld0 = NoLine /\ ld = NoLine /\ ctx = NoLine /\ line = NoLine /\ mline = NoLine
    /\ req = NoRequest /\ db = <<>> /\ resp = "none"
    /\ util = NoCall
    /\ heap = <<>> /\ engines = <<>> /\ calls = <<>>

SpecTotals == TotalsInit /\ [][EngineNext]_vars

-----------------------------------------------------------------------------
(* Claims about the value warnings *)

HighValueWarning == "High-value transaction: Additional documentation may be required"

TwoLakhWarning == "Transaction above Rs.2 Lakh: Enhanced compliance requirements apply"

EInvoiceWarning == "E-invoice generation recommended for transactions >= Rs.50,000"

\* how many times validate gave this warning
WarningCount(code) ==
    Cardinality({ i \in 1..Len(res.warnings) : res.warnings[i] = code })

\* 1 when the condition holds, else 0
OnceIf(cond) == IF cond THEN 1 ELSE 0

\* C19: validate gives the high-value warning exactly when grand_total >
\* 50,000, the 'above Rs.2 Lakh' warning exactly when grand_total > 200,000
\* and the e-invoice warning exactly when grand_total >= 50,000, the seller
\* has e_invoice_enabled and no e-invoice details are attached; none of them
\* adds an error.
C19_ValueWarnings ==
    Returned =>
        /\ WarningCount(HighValueWarning) = OnceIf(inv.grand_total.n > 100 * 50000)
        /\ WarningCount(TwoLakhWarning) = OnceIf(inv.grand_total.n > 100 * 200000)
        /\ WarningCount(EInvoiceWarning) =
              OnceIf(/\ inv.grand_total.n >= 100 * 50000
                     /\ inv.tenant.e_invoice_enabled
                     /\ ~inv.einvoice_details)
        /\ Len(res.errors) = OnceIf(inv.date.d > 0)
        /\ res.is_valid <=> inv.date.d <= 0

\* at exactly Rs 50,000 the e-invoice warning appears alone
C19_Witness ==
    /\ Returned
    /\ inv.grand_total.n = 100 * 50000
    /\ res.warnings = <<EInvoiceWarning>>
    /\ res.is_valid

-----------------------------------------------------------------------------
(* GSTComplianceEngine._calculate_compliance_score *)

Max(a, b) == IF a >= b THEN a ELSE b

calculate_compliance_score_unclamped(errors, warnings) ==
    100 - Len(errors) * 10 - Len(warnings) * 2

calculate_compliance_score(errors, warnings) ==
    Max(0, 100 - Len(errors) * 10 - Len(warnings) * 2)

\* a list of n messages
Messages(n) == [i \in 1..n |-> "m"]

ScoreOf(errors, warnings) ==
    [fn |-> "_calculate_compliance_score", errors |-> errors, warnings |-> warnings,
     result |-> calculate_compliance_score(errors, warnings)]

ScoreInit ==
    /\ pc = "score_ready"
    /\ util = NoCall
    /\ inv = NoInvoice /\ res = NoResult
    /\ ld0 = NoLine /\ ld = NoLine /\ ctx = NoLine /\ line = NoLine /\ mline = NoLine
    /\ req = NoRequest /\ db = <<>> /\ resp = "none"
    /\ heap = <<>> /\ engines = <<>> /\ calls = <<>>

\* the score of a report
ScoreCall ==
    /\ util = NoCall
    /\ \E ne \in 0..MaxErrors, nw \in {0, 1, MaxWarnings} :
          util' = ScoreOf(Messages(ne), Messages(nw))
    /\ UNCHANGED <<pc, lineVars, engineVars, requestVars, threadVars>>

\* the score of the same report with one more error
ScoreWithError ==
    /\ util # NoCall
    /\ Len(util.errors) < MaxErrors
    /\ util' = ScoreOf(Append(util.errors, "m"), util.warnings)
    /\ UNCHANGED <<pc, lineVars, engineVars, requestVars, threadVars>>

\* the score of the same report with one more warning
ScoreWithWarning ==
    /\ util # NoCall
    /\ Len(util.warnings) < MaxWarnings
    /\ util' = ScoreOf(util.errors, Append(util.warnings, "m"))
    /\ UNCHANGED <<pc, lineVars, engineVars, requestVars, threadVars>>

ScoreNext == ScoreCall \/ ScoreWithError \/ ScoreWithWarning

SpecScore == ScoreInit /\ [][ScoreNext]_vars

-----------------------------------------------------------------------------
(* Claims about the compliance score *)

Scored == util.fn = "_calculate_compliance_score"

\* the score is the stated expression and lies in 0..100
ScoreAsStated ==
    Scored =>
        /\ util.result =
              (IF 10 * Len(util.errors) + 2 * Len(util.warnings) >= 100 THEN 0
               ELSE 100 - 10 * Len(util.errors) - 2 * Len(util.warnings))
        /\ util.result \in 0..100

\* one more error or warning does not raise the score
ScoreNotRaised ==
    (Scored /\ Scored') =>
        ((Len(util'.errors) >= Len(util.errors) /\ Len(util'.warnings) >= Len(util.warnings))
            => util'.result <= util.result)

\* C20: compliance_score = max(0, 100 - 10 * len(errors) - 2 * len(warnings));
\* it lies in [0, 100] for every report, and a report with one more error or
\* warning never has a higher score.
C20_ComplianceScore == [](ScoreAsStated) /\ [][ScoreNotRaised]_vars

\* a report whose penalties exceed 100, scored 0
C20_Witness ==
    /\ Scored
    /\ 10 * Len(util.errors) + 2 * Len(util.warnings) > 100
    /\ util.result = 0

-----------------------------------------------------------------------------
(* The text of the diagnostics *)

\* the characters of a text, as one string
RECURSIVE Join(_)
Join(s) == IF s = <<>> THEN "" ELSE s[1] \o Join(Tail(s))

\* f"{i}" for the index of a line
IndexText(i) == IF i < 10 THEN DigitChar(i) ELSE DigitChar(i \div 10) \o DigitChar(i % 10)

\* the GSTIN that validate_gstin was handed for this party
GstinOf(d, entity_name) ==
    IF entity_name = "Supplier" THEN Join(TextOf(TenantOf(d).gstin))
    ELSE Join(TextOf(ClientOf(d).gstin))

\* the string appended to self.errors; a Decimal is printed with the
\* characters 0-9 . - + E only and is written 0 here
Message(d, e) ==
    CASE e.code = "Rule-46 violation: Missing mandatory field" ->
            e.code \o " '" \o e.arg \o "'"
      [] e.code \in {"Rule-46 violation: Line missing description",
                     "Rule-46 violation: Line missing HSN/SAC code",
                     "Rule-46 violation: Line taxable value must be positive"} ->
            "Rule-46 violation: Line " \o IndexText(e.line)
               \o SubSeq(e.code, 24, Len(e.code))
      [] e.code = "Invalid GSTIN format for" ->
            e.code \o " " \o e.arg \o ": " \o GstinOf(d, e.arg)
      [] e.code = "Invalid state code in GSTIN for" ->
            e.code \o " " \o e.arg \o ": " \o SubSeq(GstinOf(d, e.arg), 1, 2)
      [] e.code \in {"Line: Invalid GST rate", "Line: Invalid CESS rate"} ->
            "Line " \o IndexText(e.line) \o SubSeq(e.code, 5, Len(e.code)) \o " 0%"
      [] e.code = "Line: Taxable value calculation error" ->
            "Line " \o IndexText(e.line) \o SubSeq(e.code, 5, Len(e.code))
               \o ". Expected: 0, Actual: 0"
      [] e.code = "Invalid place of supply code" ->
            e.code \o ": " \o Join(TextOf(d.place_of_supply))
      [] e.code = "B2B requirement: Client field is mandatory" ->
            "B2B requirement: Client " \o e.arg \o " is mandatory"
      [] e.line > 0 ->
            "Line " \o IndexText(e.line) \o SubSeq(e.code, 5, Len(e.code))
      [] OTHER -> e.code

Messages_of(d, errors) == [i \in 1..Len(errors) |-> Message(d, errors[i])]

\* kw in text
Contains(text, kw) ==
    \E i \in 1..(Len(text) - Len(kw) + 1) : SubSeq(text, i, i + Len(kw) - 1) = kw

UpperText == "ABCDEFGHIJKLMNOPQRSTUVWXYZ"

LowerText == "abcdefghijklmnopqrstuvwxyz"

\* str.lower() of one character
LowerChar(c) ==
    IF \E k \in 1..26 : SubSeq(UpperText, k, k) = c
    THEN LET k == CHOOSE k \in 1..26 : SubSeq(UpperText, k, k) = c
         IN SubSeq(LowerText, k, k)
    ELSE c

\* kw in text.lower()
ContainsLower(text, kw) ==
    \E i \in 1..(Len(text) - Len(kw) + 1) :
        \A j \in 1..Len(kw) :
            LowerChar(SubSeq(text, i + j - 1, i + j - 1)) = SubSeq(kw, j, j)

-----------------------------------------------------------------------------
(* GSTComplianceEngine.generate_compliance_report *)

\* [x] if cond else []
ListIf(cond, x) == IF cond THEN <<x>> ELSE <<>>

\* errors and warnings are lists of strings
generate_recommendations_anyCase(errors, warnings) ==
    ListIf(\E i \in 1..Len(errors) : ContainsLower(errors[i], "gstin"),
           "Verify and update GSTIN details for all parties")
    \o ListIf(\E i \in 1..Len(errors) :
                 ContainsLower(errors[i], "hsn") \/ ContainsLower(errors[i], "sac"),
              "Review and correct HSN/SAC codes as per latest GST classification")
    \o ListIf(\E i \in 1..Len(errors) : ContainsLower(errors[i], "rate"),
              "Verify GST rates against current rate notifications")
    \o ListIf(\E i \in 1..Len(errors) : ContainsLower(errors[i], "calculation"),
              "Review calculation logic and ensure accuracy")
    \o ListIf(warnings # <<>>, "Address warnings to improve compliance posture")

generate_recommendations(errors, warnings) ==
    ListIf(\E i \in 1..Len(errors) : Contains(errors[i], "GSTIN"),
           "Verify and update GSTIN details for all parties")
    \o ListIf(\E i \in 1..Len(errors) :
                 Contains(errors[i], "HSN") \/ Contains(errors[i], "SAC"),
              "Review and correct HSN/SAC codes as per latest GST classification")
    \o ListIf(\E i \in 1..Len(errors) : ContainsLower(errors[i], "rate"),
              "Verify GST rates against current rate notifications")
    \o ListIf(\E i \in 1..Len(errors) : ContainsLower(errors[i], "calculation"),
              "Review calculation logic and ensure accuracy")
    \o ListIf(warnings # <<>>, "Address warnings to improve compliance posture")

get_applicable_regulations_b2bOnly(d) ==
    <<"GST Rule 46", "CGST Act 2017">>
    \o ListIf(Dec(d.grand_total) >= Rs(50000) /\ ClientOf(d).client_type = "b2b",
              "E-invoice Rules")
    \o ListIf(ClientOf(d).client_type = "b2b", "B2B Transaction Rules")

get_applicable_regulations(d) ==
    <<"GST Rule 46", "CGST Act 2017">>
    \o ListIf(Dec(d.grand_total) >= Rs(50000), "E-invoice Rules")
    \o ListIf(ClientOf(d).client_type = "b2b", "B2B Transaction Rules")

calculate_next_review_date_above(d) ==
    IF Dec(d.grand_total) > Rs(200000) THEN 30
    ELSE IF Dec(d.grand_total) > Rs(50000) THEN 90
    ELSE 180

\* the review date in days after today
calculate_next_review_date(d) ==
    IF Dec(d.grand_total) >= Rs(200000) THEN 30
    ELSE IF Dec(d.grand_total) >= Rs(50000) THEN 90
    ELSE 180

rule_46_status_byScore(r) ==
    IF calculate_compliance_score(r.errors, r.warnings) = 100
    THEN "COMPLIANT" ELSE "NON_COMPLIANT"

rule_46_status(r) == IF r.is_valid THEN "COMPLIANT" ELSE "NON_COMPLIANT"

\* the report built from the result r of validate_invoice_rule_46(d)
Report(d, r) ==
    IF r.outcome = "raised"
    THEN [fn |-> "generate_compliance_report", outcome |-> "raised"]
    ELSE [fn |-> "generate_compliance_report", outcome |-> "returned",
          invoice_number |-> d.number,
          is_compliant |-> r.is_valid,
          compliance_score |-> calculate_compliance_score(r.errors, r.warnings),
          rule_46_status |-> rule_46_status(r),
          errors |-> r.errors,
          warnings |-> r.warnings,
          recommendations |->
             generate_recommendations(Messages_of(d, r.errors), r.warnings),
          applicable_regulations |-> get_applicable_regulations(d),
          next_review_date |-> calculate_next_review_date(d)]

generate_compliance_report(d) == Report(d, validate_invoice_rule_46(d))

-----------------------------------------------------------------------------
(* validate and generate_compliance_report on the same invoice *)

\* a clean line, a line without code, a line with a rate outside the catalog
\* and unequal halves, a line whose total is off, a line with a quantity that
\* is no number
ReportLines ==
    { BaseLine,
      [BaseLine EXCEPT !.hsn_sac = Txt(<<>>)],
      [BaseLine EXCEPT !.cgst_rate = Num(P(15)), !.sgst_rate = Num(P(13)),
                       !.cgst_amount = Num(Rs(120)), !.sgst_amount = Num(Rs(104)),
                       !.line_total = Num(Rs(1024))],
      [BaseLine EXCEPT !.line_total = Num(Rs(950))],
      [BaseLine EXCEPT !.quantity = Txt(<<"x">>)] }

ReportClients ==
    { ClientB2B,
      [ClientB2B EXCEPT !.gstin = Absent],
      [ClientB2B EXCEPT !.gstin = Txt(<<"h", "s", "n">>)],
      [ClientB2B EXCEPT !.client_type = "b2c", !.gstin = Txt(<<>>),
                        !.billing_address = EmptyClient.billing_address] }

ReportPlaces ==
    { Txt(<<"2", "7">>), Txt(<<"s", "a", "c">>), Txt(<<"R", "A", "T", "E">>), Absent }

ReportTotals == { Rs(944), Rs(50000) - 1, Rs(50000), Rs(200000) - 1, Rs(200000) }

ReportInit ==
    /\ pc = "engine_ready"
    /\ \E lines \in SeqsUpTo({BaseLine, [BaseLine EXCEPT !.hsn_sac = Txt(<<>>)]})
                       \cup { <<l>> : l \in ReportLines },
          client \in ReportClients,
          pos \in ReportPlaces, grand_total \in ReportTotals, days \in {0, 0 - 731} :
            inv = [BaseInvoice(lines, 0, 0) EXCEPT
                      !.client = client, !.place_of_supply = pos,
                      !.grand_total = Num(grand_total), !.date = Date(days)]
    /\ res = NoResult
    /\ ld0 = NoLine /\ ld = NoLine /\ ctx = NoLine /\ line = NoLine /\ mline = NoLine
    /\ req = NoRequest /\ db = <<>> /\ resp = "none"
    /\ util = NoCall
    /\ heap = <<>> /\ engines = <<>> /\ calls = <<>>

GenerateReport ==
    /\ util = NoCall
    /\ util' = generate_compliance_report(inv)
    /\ UNCHANGED <<pc, lineVars, engineVars, requestVars, threadVars>>

ReportNext == ValidateCall \/ GenerateReport

SpecReport == ReportInit /\ [][ReportNext]_vars

-----------------------------------------------------------------------------
(* Claims about the compliance report *)

Reported == util.fn = "generate_compliance_report"

ReportReturned == Reported /\ util.outcome = "returned"

\* C21: the report of an invoice has is_compliant, errors and warnings equal
\* to what validate_invoice_rule_46 returns for the same invoice, and
\* rule_46_status is COMPLIANT exactly when is_compliant is True, which is
\* exactly when errors is empty, and NON_COMPLIANT otherwise.
C21_ReportAgrees ==
    (Reported /\ pc # "engine_ready") =>
        /\ ReportReturned <=> Returned
        /\ ReportReturned =>
              /\ util.is_compliant = res.is_valid
              /\ util.errors = res.errors
              /\ util.warnings = res.warnings
              /\ util.rule_46_status =
                    IF util.is_compliant THEN "COMPLIANT" ELSE "NON_COMPLIANT"
              /\ util.is_compliant <=> util.errors = <<>>

\* a compliant report that carries a warning, and agrees with validate
C21_Witness ==
    /\ ReportReturned /\ Returned
    /\ util.rule_46_status = "COMPLIANT"
    /\ util.warnings # <<>>
    /\ util.warnings = res.warnings

\* the texts of the errors of the report
ErrorTexts == Messages_of(inv, util.errors)

\* how many times the report gives this recommendation
RecommendationCount(text) ==
    Cardinality({ i \in 1..Len(util.recommendations) : util.recommendations[i] = text })

\* some error text holds the keyword, whatever the case of its letters
ErrorMentions(kw) == \E i \in 1..Len(ErrorTexts) : ContainsLower(ErrorTexts[i], kw)

\* some error text holds the keyword as written
ErrorHolds(kw) == \E i \in 1..Len(ErrorTexts) : Contains(ErrorTexts[i], kw)

GstinAdvice == "Verify and update GSTIN details for all parties"

CodeAdvice == "Review and correct HSN/SAC codes as per latest GST classification"

RateAdvice == "Verify GST rates against current rate notifications"

CalculationAdvice == "Review calculation logic and ensure accuracy"

WarningAdvice == "Address warnings to improve compliance posture"

\* C22 as stated: each keyword recommendation appears, once, exactly when some
\* error text holds its keyword in any case of letters, and the generic
\* recommendation exactly when there is a warning.
C22_Original ==
    ReportReturned =>
        /\ RecommendationCount(GstinAdvice) = OnceIf(ErrorMentions("gstin"))
        /\ RecommendationCount(CodeAdvice) =
              OnceIf(ErrorMentions("hsn") \/ ErrorMentions("sac"))
        /\ RecommendationCount(RateAdvice) = OnceIf(ErrorMentions("rate"))
        /\ RecommendationCount(CalculationAdvice) = OnceIf(ErrorMentions("calculation"))
        /\ RecommendationCount(WarningAdvice) = OnceIf(util.warnings # <<>>)

\* C22 amended: GSTIN, HSN and SAC are looked for in capitals as written,
\* 'rate' and 'calculation' in any case of letters; each recommendation
\* appears at most once, the generic one exactly when there is a warning, and
\* nothing else is recommended.
C22_Recommendations ==
    ReportReturned =>
        /\ RecommendationCount(GstinAdvice) = OnceIf(ErrorHolds("GSTIN"))
        /\ RecommendationCount(CodeAdvice) =
              OnceIf(ErrorHolds("HSN") \/ ErrorHolds("SAC"))
        /\ RecommendationCount(RateAdvice) = OnceIf(ErrorMentions("rate"))
        /\ RecommendationCount(CalculationAdvice) = OnceIf(ErrorMentions("calculation"))
        /\ RecommendationCount(WarningAdvice) = OnceIf(util.warnings # <<>>)
        /\ \A i \in 1..Len(util.recommendations) :
              util.recommendations[i] \in
                 {GstinAdvice, CodeAdvice, RateAdvice, CalculationAdvice, WarningAdvice}

\* a B2B buyer without GSTIN: 'transactions' holds 'sac' in small letters only,
\* and the report recommends on GSTIN, not on HSN/SAC
C22_Witness ==
    /\ ReportReturned
    /\ ErrorMentions("sac") /\ ~ErrorHolds("SAC") /\ ~ErrorHolds("HSN")
    /\ RecommendationCount(GstinAdvice) = 1
    /\ RecommendationCount(CodeAdvice) = 0

\* how many times the report lists this regulation
RegulationCount(text) ==
    Cardinality({ i \in 1..Len(util.applicable_regulations) :
                    util.applicable_regulations[i] = text })

\* C23: applicable_regulations always holds 'GST Rule 46' and 'CGST Act 2017',
\* holds 'E-invoice Rules' exactly when grand_total >= 50,000 and 'B2B
\* Transaction Rules' exactly when the buyer's client_type is b2b, whether the
\* invoice is valid or not.
C23_Regulations ==
    ReportReturned =>
        /\ RegulationCount("GST Rule 46") = 1
        /\ RegulationCount("CGST Act 2017") = 1
        /\ RegulationCount("E-invoice Rules") = OnceIf(inv.grand_total.n >= 100 * 50000)
        /\ RegulationCount("B2B Transaction Rules") =
              OnceIf(inv.client.client_type = "b2b")
        /\ Len(util.applicable_regulations) <= 4

\* an invalid B2C invoice of exactly Rs 50,000
C23_Witness ==
    /\ ReportReturned
    /\ ~util.is_compliant
    /\ inv.grand_total.n = 100 * 50000
    /\ inv.client.client_type = "b2c"
    /\ util.applicable_regulations = <<"GST Rule 46", "CGST Act 2017", "E-invoice Rules">>

\* C24: next_review_date is today + 30 days when grand_total >= 200,000,
\* today + 90 days when 50,000 <= grand_total < 200,000 and today + 180 days
\* otherwise, so that the boundary values 50,000 and 200,000 fall in the
\* shorter interval.
C24_NextReview ==
    ReportReturned =>
        util.next_review_date =
           (IF inv.grand_total.n >= 100 * 200000 THEN 30
            ELSE IF inv.grand_total.n >= 100 * 50000 THEN 90
            ELSE 180)

\* an invoice of exactly Rs 200,000 is reviewed after 30 days
C24_Witness ==
    /\ ReportReturned
    /\ inv.grand_total.n = 100 * 200000
    /\ util.next_review_date = 30

-----------------------------------------------------------------------------
(* validate on invoices with one numeric field that holds no number *)

InvoiceNumericFields == {"taxable_amount", "total_tax", "grand_total"}

LineNumericFields ==
    { "quantity", "rate", "discount_percent", "discount_amount", "taxable_value",
      "cgst_rate", "sgst_rate", "igst_rate", "cess_rate",
      "cgst_amount", "sgst_amount", "igst_amount", "cess_amount", "line_total" }

\* 'x' and ''
NonNumbers == { Txt(<<"x">>), Txt(<<>>) }

\* one service line, one goods line, two lines, no line
MalformedLines ==
    { <<BaseLine>>, <<CodeLine(<<"1", "0", "0", "1">>, FALSE)>>,
      <<BaseLine, BaseLine>>, <<>> }

MalformedInit ==
    /\ pc = "engine_ready"
    /\ \E lines \in MalformedLines, v \in NonNumbers :
          \/ inv = BaseInvoice(lines, 0, 0)
          \/ \E f \in InvoiceNumericFields :
                inv = [BaseInvoice(lines, 0, 0) EXCEPT ![f] = v]
          \/ inv = [BaseInvoice(lines, 0, 0) EXCEPT !.tenant.aato_threshold = v]
          \/ \E n \in 1..Len(lines), f \in LineNumericFields :
                inv = [BaseInvoice(lines, 0, 0) EXCEPT !.lines[n][f] = v]
    /\ res = NoResult
    /\ ld0 = NoLine /\ ld = NoLine /\ ctx = NoLine /\ line = NoLine /\ mline = NoLine
    /\ req = NoRequest /\ db = <<>> /\ resp = "none"
    /\ util = NoCall
    /\ heap = <<>> /\ engines = <<>> /\ calls = <<>>

SpecMalformed == MalformedInit /\ [][EngineNext]_vars

-----------------------------------------------------------------------------
(* Claims about input that is not well-formed *)

\* a numeric field of the invoice, of its seller or of a line holds text
HoldsNonNumber(d) ==
    \/ \E f \in InvoiceNumericFields : d[f].k = "str"
    \/ d.tenant.aato_threshold.k = "str"
    \/ \E n \in 1..Len(d.lines), f \in LineNumericFields : d.lines[n][f].k = "str"

\* C25: when a numeric field of the input holds a value that is no number,
\* validate ends with an exception: it returns no (is_valid, errors,
\* warnings).
C25_MalformedAborts ==
    (pc # "engine_ready" /\ HoldsNonNumber(inv)) =>
        pc = "engine_raised" /\ res.outcome = "raised"

-----------------------------------------------------------------------------
(* validate_invoice_rule_46 statement by statement, on engine instances.
   self.errors and self.warnings are references to list objects; a call
   rebinds both to new lists, every check appends to the list the field holds
   at that moment, and the return statement hands out the list objects
   themselves. *)

\* two requests in flight
Callers == {1, 2}

\* the checks in the order validate_invoice_rule_46 calls them
Checks ==
    <<"mandatory_fields", "gstin_format", "invoice_details", "tax_rates",
      "place_of_supply", "hsn_sac_codes", "invoice_values",
      "b2b_requirements", "aato_compliance">>

\* what the k-th check appends for invoice d, and whether it raises
check(k, d) ==
    CASE Checks[k] = "mandatory_fields" -> validate_mandatory_fields(d, Acc0)
      [] Checks[k] = "gstin_format" -> validate_gstin_format(d, Acc0)
      [] Checks[k] = "invoice_details" -> validate_invoice_details(d, Acc0)
      [] Checks[k] = "tax_rates" -> validate_tax_rates(d, Acc0)
      [] Checks[k] = "place_of_supply" -> validate_place_of_supply(d, Acc0)
      [] Checks[k] = "hsn_sac_codes" -> validate_hsn_sac_codes(d, Acc0)
      [] Checks[k] = "invoice_values" -> validate_invoice_values(d, Acc0)
      [] Checks[k] = "b2b_requirements" -> b2b_if_client_type(d, Acc0)
      [] Checks[k] = "aato_compliance" -> validate_aato_compliance(d, Acc0)

\* engine = GSTComplianceEngine(): __init__ binds both fields to new lists;
\* n engines constructed one after another
Engines(n) == [i \in 1..n |-> [errors |-> 2 * i - 1, warnings |-> 2 * i]]

HeapOf(n) == [i \in 1..(2 * n) |-> <<>>]

\* a call that has not begun: which engine it runs on, its invoice, whether
\* it is generate_compliance_report, and the calls its caller waits for
NewCall(engine, d, fn, after) ==
    [engine |-> engine, inv |-> d, fn |-> fn, after |-> after,
     at |-> "start", k |-> 1, errors_due |-> <<>>, warnings_due |-> <<>>,
     raising |-> FALSE, is_valid |-> FALSE, errors |-> 0, warnings |-> 0,
     report |-> NoCall]

Ended(c) == c.at \in {"done", "raised"}

\* self.errors = []
ResetErrors_inPlace(h, es, e) ==
    [heap |-> [h EXCEPT ![es[e].errors] = <<>>], engines |-> es]

ResetErrors(h, es, e) ==
    [heap |-> Append(h, <<>>),
     engines |-> [es EXCEPT ![e].errors = Len(h) + 1]]

\* self.warnings = []
ResetWarnings_inPlace(h, es, e) ==
    [heap |-> [h EXCEPT ![es[e].warnings] = <<>>], engines |-> es]

ResetWarnings(h, es, e) ==
    [heap |-> Append(h, <<>>),
     engines |-> [es EXCEPT ![e].warnings = Len(h) + 1]]

BeginCall(t) ==
    /\ calls[t].at = "start"
    /\ \A u \in calls[t].after : Ended(calls[u])
    /\ heap' = ResetErrors(heap, engines, calls[t].engine).heap
    /\ engines' = ResetErrors(heap, engines, calls[t].engine).engines
    /\ calls' = [calls EXCEPT ![t].at = "reset_warnings"]

ResetWarningsStep(t) ==
    /\ calls[t].at = "reset_warnings"
    /\ heap' = ResetWarnings(heap, engines, calls[t].engine).heap
    /\ engines' = ResetWarnings(heap, engines, calls[t].engine).engines
    /\ calls' = [calls EXCEPT ![t].at = "checks"]

Idle(c) == c.errors_due = <<>> /\ c.warnings_due = <<>>

\* the next check reads the invoice; its appends follow one at a time (the
\* order between an error and a warning of one check is left open, which
\* allows every order the code has)
RunCheck(t) ==
    /\ calls[t].at = "checks" /\ Idle(calls[t]) /\ ~calls[t].raising
    /\ calls[t].k <= Len(Checks)
    /\ calls' = [calls EXCEPT
                   ![t].errors_due = check(calls[t].k, calls[t].inv).errors,
                   ![t].warnings_due = check(calls[t].k, calls[t].inv).warnings,
                   ![t].raising = check(calls[t].k, calls[t].inv).raised,
                   ![t].k = @ + 1]
    /\ UNCHANGED <<heap, engines>>

\* self.errors.append(...)
AppendError(t) ==
    /\ calls[t].at = "checks" /\ calls[t].errors_due # <<>>
    /\ heap' = [heap EXCEPT ![engines[calls[t].engine].errors] =
                                Append(@, Head(calls[t].errors_due))]
    /\ calls' = [calls EXCEPT ![t].errors_due = Tail(@)]
    /\ UNCHANGED engines

\* self.warnings.append(...)
AppendWarning(t) ==
    /\ calls[t].at = "checks" /\ calls[t].warnings_due # <<>>
    /\ heap' = [heap EXCEPT ![engines[calls[t].engine].warnings] =
                                Append(@, Head(calls[t].warnings_due))]
    /\ calls' = [calls EXCEPT ![t].warnings_due = Tail(@)]
    /\ UNCHANGED engines

\* an exception of a check leaves validate_invoice_rule_46
Propagate(t) ==
    /\ calls[t].at = "checks" /\ Idle(calls[t]) /\ calls[t].raising
    /\ calls' = [calls EXCEPT ![t].at = "raised"]
    /\ UNCHANGED <<heap, engines>>

\* return len(self.errors) == 0, self.errors, self.warnings
ReadLen(t) ==
    /\ calls[t].at = "checks" /\ Idle(calls[t]) /\ ~calls[t].raising
    /\ calls[t].k > Len(Checks)
    /\ calls' = [calls EXCEPT
                   ![t].is_valid = (heap[engines[calls[t].engine].errors] = <<>>),
                   ![t].at = "read_errors"]
    /\ UNCHANGED <<heap, engines>>

ReadErrors(t) ==
    /\ calls[t].at = "read_errors"
    /\ calls' = [calls EXCEPT ![t].errors = engines[calls[t].engine].errors,
                              ![t].at = "read_warnings"]
    /\ UNCHANGED <<heap, engines>>

ReadWarnings(t) ==
    /\ calls[t].at = "read_warnings"
    /\ calls' = [calls EXCEPT
                   ![t].warnings = engines[calls[t].engine].warnings,
                   ![t].at = IF calls[t].fn = "generate_compliance_report"
                             THEN "report" ELSE "done"]
    /\ UNCHANGED <<heap, engines>>

\* what the caller holds after the return: the three values, the lists read
\* through their references
Handed(h, c) ==
    [outcome |-> "returned", is_valid |-> c.is_valid,
     errors |-> h[c.errors], warnings |-> h[c.warnings]]

\* report = {...}: the dictionary generate_compliance_report builds from the
\* values validate_invoice_rule_46 returned
BuildReport(t) ==
    /\ calls[t].at = "report"
    /\ calls' = [calls EXCEPT
                   ![t].report = Report(calls[t].inv, Handed(heap, calls[t])),
                   ![t].at = "done"]
    /\ UNCHANGED <<heap, engines>>

CallsNext ==
    /\ \E t \in DOMAIN calls :
          \/ BeginCall(t)
          \/ ResetWarningsStep(t)
          \/ RunCheck(t)
          \/ AppendError(t)
          \/ AppendWarning(t)
          \/ Propagate(t)
          \/ ReadLen(t)
          \/ ReadErrors(t)
          \/ ReadWarnings(t)
          \/ BuildReport(t)
    /\ UNCHANGED <<pc, lineVars, engineVars, requestVars, utilVars>>

\* what a call has handed to its caller, as the caller sees it now
Outcome(c) ==
    IF c.at = "raised"
    THEN [outcome |-> "raised"]
    ELSE Handed(heap, c)

\* the same call on an engine no other call touches
Alone(c) ==
    IF validate_invoice_rule_46(c.inv).outcome = "raised"
    THEN [outcome |-> "raised"]
    ELSE validate_invoice_rule_46(c.inv)

-----------------------------------------------------------------------------
(* Concurrent requests, each on the engine it constructed *)

\* a compliant invoice, one with a warning, two with defects, and one whose
\* first line reports a missing description and then fails to convert
CallInvoices ==
    { BaseInvoice(<<BaseLine>>, 0, 0),
      [BaseInvoice(<<BaseLine>>, 0, 0) EXCEPT !.grand_total = Num(Rs(50000))],
      [BaseInvoice(<<BaseLine>>, 0, 0) EXCEPT !.place_of_supply = Absent],
      [BaseInvoice(<<BaseLine>>, 0, 0) EXCEPT !.lines[1].hsn_sac = Txt(<<>>),
                                              !.date = Date(0 - 731)],
      [BaseInvoice(<<BaseLine>>, 0, 0) EXCEPT
          !.lines[1].description = Txt(<<>>),
          !.lines[1].taxable_value = Txt(<<"x">>)] }

EntryPoints == {"validate_invoice_rule_46", "generate_compliance_report"}

CallsIdle ==
    /\ pc = "calls"
    /\ inv = NoInvoice /\ res = NoResult
    /\ ld0 = NoLine /\ ld = NoLine /\ ctx = NoLine /\ line = NoLine /\ mline = NoLine
    /\ req = NoRequest /\ db = <<>> /\ resp = "none"
    /\ util = NoCall

\* engine = GSTComplianceEngine() in every request
engine_of_request_shared(t) == 1

engine_of_request(t) == t

OwnEnginesInit ==
    /\ CallsIdle
    /\ heap = HeapOf(Cardinality(Callers))
    /\ engines = Engines(Cardinality(Callers))
    /\ \E ds \in [Callers -> CallInvoices], fns \in [Callers -> EntryPoints] :
          calls = [t \in Callers |->
                     NewCall(engine_of_request(t), ds[t], fns[t], {})]

SpecOwnEngines == OwnEnginesInit /\ [][CallsNext]_vars

\* a call that has ended holds what the same call returns on an engine of
\* its own: the same outcome, the same validity, errors and warnings
AsAlone(c) == Ended(c) => Outcome(c) = Alone(c)

\* C26: when validate calls for independent invoices run concurrently, each
\* on its own engine instance, then under every interleaving each call
\* returns exactly the errors and warnings of a sequential run on its own
\* invoice
C26_OwnEngines == \A t \in DOMAIN calls : AsAlone(calls[t])

\* both calls ended after running side by side, each with diagnostics of
\* its own which the other's invoice does not have
C26_Witness ==
    /\ \A t \in DOMAIN calls : calls[t].at = "done"
    /\ Outcome(calls[1]).errors # <<>>
    /\ Outcome(calls[2]).warnings # <<>>
    /\ Outcome(calls[1]).errors # Outcome(calls[2]).errors
    /\ engines[1] # engines[2]

-----------------------------------------------------------------------------
(* Two calls on one engine instance: side by side, or the second after the
   first has ended *)

SharedInvoices == CallInvoices \ {BaseInvoice(<<BaseLine>>, 0, 0)}

SharedEngineInit ==
    /\ CallsIdle
    /\ heap = HeapOf(1)
    /\ engines = Engines(1)
    /\ \E ds \in [Callers -> SharedInvoices], fn \in EntryPoints,
          after \in {{}, {1}} :
          calls = [t \in Callers |->
                     IF t = 1
                     THEN NewCall(1, ds[t], "validate_invoice_rule_46", {})
                     ELSE NewCall(1, ds[t], fn, after)]

SpecSharedEngine == SharedEngineInit /\ [][CallsNext]_vars

Elements(list) == { list[i] : i \in 1..Len(list) }

\* the diagnostics some call on the engine appends when it runs alone
AppendedErrors == UNION { Elements(RunChecks(calls[t].inv).errors) : t \in DOMAIN calls }

AppendedWarnings == UNION { Elements(RunChecks(calls[t].inv).warnings) : t \in DOMAIN calls }

\* the second caller waits for the first call to end
InTurn == calls[2].after = {1}

\* what goes wrong on a shared engine comes from the other call and from
\* nowhere else: calls made in turn return what they return alone, and a
\* returned list holds only diagnostics that one of the calls appended
OnlyInterference ==
    /\ InTurn => \A t \in DOMAIN calls : AsAlone(calls[t])
    /\ \A t \in DOMAIN calls :
          calls[t].at = "done" =>
              /\ Elements(Outcome(calls[t]).errors) \subseteq AppendedErrors
              /\ Elements(Outcome(calls[t]).warnings) \subseteq AppendedWarnings

\* C27: reusing one engine instance across concurrent validate calls is
\* unsafe: each call rebinds and then appends to self.errors/self.warnings,
\* and there is an interleaving of two calls in which a call returns a list
\* that holds diagnostics of the other call's invoice or lacks diagnostics of
\* its own (the state C27_Witness); calls that do not overlap are not
\* affected
C27_SharedEngine == OnlyInterference

\* a call made side by side with another has returned an error list that
\* holds an error of the other invoice and lacks an error of its own
C27_Witness ==
    /\ ~InTurn
    /\ \E t \in DOMAIN calls :
          /\ calls[t].at = "done"
          /\ \E x \in Elements(Outcome(calls[t]).errors) :
                x \notin Elements(Alone(calls[t]).errors)
          /\ \E x \in Elements(Alone(calls[t]).errors) :
                x \notin Elements(Outcome(calls[t]).errors)

-----------------------------------------------------------------------------
(* One caller, one engine: calls made one after another *)

\* the most calls the caller makes on the engine
MaxSequence == 3

\* an invoice with a warning, one with errors and a warning, and one whose
\* first line reports a missing description and then fails to convert
ReuseInvoices ==
    { [BaseInvoice(<<BaseLine>>, 0, 0) EXCEPT !.grand_total = Num(Rs(50000))],
      [BaseInvoice(<<BaseLine>>, 0, 0) EXCEPT !.lines[1].hsn_sac = Txt(<<>>),
                                              !.date = Date(0 - 731)],
      [BaseInvoice(<<BaseLine>>, 0, 0) EXCEPT
          !.lines[1].description = Txt(<<>>),
          !.lines[1].taxable_value = Txt(<<"x">>)] }

ReuseInit ==
    /\ CallsIdle
    /\ heap = HeapOf(1)
    /\ engines = Engines(1)
    /\ \E ds \in [1..MaxSequence -> ReuseInvoices],
          fns \in [1..MaxSequence -> EntryPoints] :
          calls = [i \in 1..MaxSequence |->
                     NewCall(1, ds[i], fns[i], IF i = 1 THEN {} ELSE {i - 1})]

SpecReuse == ReuseInit /\ [][CallsNext]_vars

\* the report a generate_compliance_report call has built is the report of
\* its invoice on an engine of its own
ReportAsAlone(c) ==
    (Ended(c) /\ c.fn = "generate_compliance_report") =>
        IF c.at = "raised"
        THEN generate_compliance_report(c.inv).outcome = "raised"
        ELSE c.report = generate_compliance_report(c.inv)

\* C28: for calls of validate / generate_compliance_report made one after
\* another on the same engine instance, each call's result depends only on
\* that call's input: it holds no diagnostics left over from earlier calls,
\* and the error and warning lists an earlier call returned are not modified
\* by any later call
C28_Reuse ==
    \A t \in DOMAIN calls : AsAlone(calls[t]) /\ ReportAsAlone(calls[t])

\* the first call returned errors and a warning, a later call on the same
\* engine has returned no errors, and the engine's fields have been rebound
\* by every call
C28_Witness ==
    /\ \A t \in DOMAIN calls : Ended(calls[t])
    /\ calls[1].at = "done"
    /\ Outcome(calls[1]).errors # <<>> /\ Outcome(calls[1]).warnings # <<>>
    /\ \E t \in DOMAIN calls :
          /\ t > 1 /\ calls[t].at = "done"
          /\ calls[t].fn = "generate_compliance_report"
          /\ Outcome(calls[t]).errors = <<>>
          /\ calls[t].errors # calls[1].errors

-----------------------------------------------------------------------------
(* Claims about how often one defect is reported *)

\* the same invoice with the defect repaired
WithCode(d, i) == [d EXCEPT !.lines[i].hsn_sac = BaseLine.hsn_sac]

WithPlace(d) == [d EXCEPT !.place_of_supply = Txt(<<"2", "7">>)]

WithGstin(d) == [d EXCEPT !.client.gstin = Txt(GSTIN_27)]

LinesWithoutCode == { i \in 1..Len(inv.lines) : Falsy(inv.lines[i].hsn_sac) }

NoPlace == Falsy(inv.place_of_supply)

B2BWithoutGstin == ClientOf(inv).client_type = "b2b" /\ Falsy(ClientOf(inv).gstin)

\* the report is built, and it has n errors more than the report of d and a
\* score that is 10 * n lower, down to 0
Adds(n, d) ==
    /\ Len(util.errors) = Len(generate_compliance_report(d).errors) + n
    /\ util.compliance_score =
          Max(0, generate_compliance_report(d).compliance_score - 10 * n)

\* the report has at least n errors more than the report of d
AddsAtLeast(n, d) ==
    /\ Len(util.errors) >= Len(generate_compliance_report(d).errors) + n
    /\ util.compliance_score <=
          Max(0, generate_compliance_report(d).compliance_score - 10 * n)

ReportHasError(code) ==
    \E i \in 1..Len(util.errors) : util.errors[i].code = code

\* C29 as stated: each single defect is reported by exactly one error string
\* and lowers the compliance score by exactly 10: a line whose hsn_sac is
\* empty, an invoice without place_of_supply, and a B2B buyer without GSTIN
\* each add exactly one entry to errors
C29_Original ==
    ReportReturned =>
        /\ \A i \in LinesWithoutCode : Adds(1, WithCode(inv, i))
        /\ NoPlace => Adds(1, WithPlace(inv))
        /\ B2BWithoutGstin => Adds(1, WithGstin(inv))

\* C29: each of these defects is reported twice, by the mandatory-field check
\* and again by the check of its own, and lowers the compliance score by 20
\* (down to 0): a line whose hsn_sac is empty and a B2B buyer without GSTIN
\* each add exactly two entries to errors; an invoice without
\* place_of_supply adds its two entries and whatever the tax split check
\* reports for a supply that no longer matches the buyer's state
C29_ReportedTwice ==
    ReportReturned =>
        /\ \A i \in LinesWithoutCode : Adds(2, WithCode(inv, i))
        /\ B2BWithoutGstin => Adds(2, WithGstin(inv))
        /\ NoPlace =>
              /\ AddsAtLeast(2, WithPlace(inv))
              /\ ReportHasError("Rule-46 violation: Missing mandatory field")
              /\ ReportHasError("Place of supply is mandatory")

\* the report of an invoice whose only defect is a B2B buyer without GSTIN:
\* two errors, score 80
C29_Witness ==
    /\ ReportReturned
    /\ B2BWithoutGstin /\ ~NoPlace /\ LinesWithoutCode = {}
    /\ generate_compliance_report(WithGstin(inv)).errors = <<>>
    /\ generate_compliance_report(WithGstin(inv)).compliance_score = 100
    /\ Len(util.errors) = 2
    /\ util.compliance_score = 80

-----------------------------------------------------------------------------
(* Create requests of one tenant that omit the invoice number, in flight
   together: is_valid() runs validate(), which reads the last stored invoice
   of the series and adds one; save() runs create() afterwards *)

\* (series, number) of a request that leaves the numbering to the serializer
SeriesUnnumbered ==
    { <<Txt(SERIES_DEFAULT), Absent>>, <<Absent, Absent>>,
      <<Txt(<<"A">>), Absent>>, <<Txt(SERIES_DEFAULT), Txt(<<>>)>> }

\* nothing stored; INV0007 stored in series INV; and the invoice create()
\* stores for a request that gave neither series nor number
NumberingDBs ==
    { <<>>,
      <<StoredInvoice(<<"I", "N", "V", "0", "0", "0", "7">>)>>,
      <<[StoredInvoice(<<"I", "N", "V", "0", "0", "0", "1">>) EXCEPT !.series = <<>>]>> }

NewRequest(tenant, data) ==
    [at |-> "received", tenant |-> tenant, data |-> data, attrs |-> data,
     resp |-> "none"]

NumberingInit ==
    /\ pc = "calls"
    /\ db \in NumberingDBs
    /\ \E tenant \in RequestTenants,
          sns \in [Callers -> SeriesUnnumbered],
          pos \in [Callers -> {Absent, Txt(<<"2", "7">>)}],
          lines \in [Callers -> {<<ItemLine(1, 0)>>, <<ItemLine(2, P(10))>>}] :
            calls = [t \in Callers |->
                       NewRequest(tenant,
                          RequestData(sns[t], Absent, pos[t], ClientMH, lines[t]))]
    /\ inv = NoInvoice /\ res = NoResult
    /\ ld0 = NoLine /\ ld = NoLine /\ ctx = NoLine /\ line = NoLine /\ mline = NoLine
    /\ req = NoRequest /\ resp = "none"
    /\ util = NoCall
    /\ heap = <<>> /\ engines = <<>>

\* validate() down to the defaults: the number is made from the invoices
\* stored at this moment
NumberStep(t) ==
    /\ calls[t].at = "received"
    /\ calls' = [calls EXCEPT
                   ![t].attrs = InvoiceSerializerValidate(calls[t].data, db,
                                                          calls[t].tenant),
                   ![t].at = "numbered"]
    /\ UNCHANGED db

\* _validate_gst_compliance(attrs), and save() if is_valid() succeeded
FinishCreate(t) ==
    /\ calls[t].at = "numbered"
    /\ calls' = [calls EXCEPT
                   ![t].resp =
                      RequestOutcome(
                        validate_invoice_rule_46(
                          prepare_compliance_data(calls[t].attrs, calls[t].tenant)),
                        Conflicts(db, create(calls[t].attrs), 0), "created"),
                   ![t].at = "done"]
    /\ db' = IF calls'[t].resp = "created"
             THEN Append(db, create(calls[t].attrs)) ELSE db

NumberingNext ==
    /\ \E t \in DOMAIN calls : NumberStep(t) \/ FinishCreate(t)
    /\ UNCHANGED <<pc, lineVars, engineVars, req, resp, utilVars, heap, engines>>

SpecNumbering == NumberingInit /\ [][NumberingNext]_vars

\* the request left the number to the serializer, and validate() has made it
Numbered(c) == c.at = "numbered" /\ Falsy(c.data.number)

\* (series, number) under which create() stores the request
StoredKey(c) == <<create(c.attrs).series, create(c.attrs).number>>

=============================================================================
